---- MODULE Spec2Model ----
(***************************************************************************)
(* A model of SandboxBridge (src/GlobalResourceHub.js, lines 520-890): the *)
(* cross-context bridge of unicanvas.  Two bridge instances, each in its   *)
(* own window, exchange envelopes over window.postMessage.  The transport  *)
(* is asynchronous and untrusted: it may deliver the envelopes the bridges *)
(* handed to it in any order, and any window may post any message.         *)
(***************************************************************************)
EXTENDS Integers, Sequences, FiniteSets, TLC

(***************************************************************************)
(* Bounds of the model.                                                    *)
(***************************************************************************)
\* envelopes one bridge builds (messageCounter is capped at this value)
MaxCounter == 2
\* envelopes in flight in the transport
MaxNet == 1
\* clock advances
MaxTicks == 1
\* entries in one allowlist
MaxAllow == 1
\* handler results awaiting their callbacks
MaxJobs == 1
\* the random suffix of a message id ranges over 0..MaxRnd
MaxRnd == 0

(***************************************************************************)
(* Program constants.                                                      *)
(***************************************************************************)
\* options.messageTimeout || 5000
DefaultMessageTimeout == 5000
\* options.maxMessageSize || 1024 * 1024
DefaultMaxMessageSize == 1048576
\* messageAge > 60000 is rejected
MaxMessageAge == 60000
\* Date.now() when the bridges are constructed
StartTime == 100000

Bridges == {1, 2}

(***************************************************************************)
(* Origins and allowlist patterns are strings, modelled as sequences of    *)
(* characters so that the RegExp of _isOriginAllowed can be run on them.   *)
(***************************************************************************)
OriginA == <<"a", ".", "t">>
OriginB == <<"b", ".", "t">>
OriginEvil == <<"e", "x", "t">>
Origins == {OriginA, OriginB, OriginEvil}
\* window.location.origin of each bridge's window
OriginOf(b) == IF b = 1 THEN OriginA ELSE OriginB
Star == <<"*">>
WildPattern == <<"*", ".", "t">>
Patterns == Origins \cup {Star, WildPattern}

(***************************************************************************)
(* JavaScript values.  A value is a record of fixed shape: its tag is the  *)
(* kind of value, the other fields are the properties the bridge reads     *)
(* (payload.type, payload.message, payload.details) and the rest of the    *)
(* content (data).  The empty string stands for an absent property.        *)
(***************************************************************************)
JSV(tag, type, data, message, details) ==
  [tag |-> tag, type |-> type, data |-> data, message |-> message, details |-> details]
VUndefined == JSV("undefined", "", "", "", "")
VNull == JSV("null", "", "", "", "")
VFalse == JSV("false", "", "", "", "")
VZero == JSV("zero", "", "", "", "")
VEmptyString == JSV("emptystring", "", "", "", "")
VText == JSV("string", "", "text", "", "")
VPong == JSV("object", "", "pong", "", "")
VData == JSV("object", "", "data", "", "")
Request(type) == JSV("object", type, "req", "", "")
\* { message: error.message, details: error.details || {} }
ErrorPayload(message, details) == JSV("object", "", "", message, details)

\* !v is false
Truthy(v) == v.tag \in {"object", "string", "true", "number"}
\* v && typeof v === 'object'
IsObject(v) == v.tag = "object"

(***************************************************************************)
(* Message ids.  _generateMessageId builds                                 *)
(* `msg_${Date.now()}_${this.messageCounter}_${random}`; any other string  *)
(* (an id of a foreign window, a property name of Object.prototype) has    *)
(* another prefix.  NoId is the empty or missing id.                       *)
(***************************************************************************)
IdOf(pfx, t, n, r) == [pfx |-> pfx, t |-> t, n |-> n, r |-> r]
NoId == IdOf("", 0, 0, 0)
NamedId(name) == IdOf(name, 0, 0, 0)
MessageId(t, n, r) == IdOf("msg", t, n, r)
RandomSuffixes == 0..MaxRnd

\* property names every object literal {} inherits from Object.prototype
ProtoKeys == {"constructor", "toString"}

(***************************************************************************)
(* Envelopes: the request of postMessage (lines 592-599) and the response  *)
(* of respondToMessage (lines 683-691), in one record shape.  isObj is     *)
(* false for event data that is not an object at all.                      *)
(***************************************************************************)
Envelope(id, ts, source, target, payload, rr, respTo, isResp, status) ==
  [isObj |-> TRUE, id |-> id, timestamp |-> ts, source |-> source, target |-> target,
   payload |-> payload, requiresResponse |-> rr, responseToId |-> respTo,
   isResponse |-> isResp, status |-> status]
NonObject ==
  [isObj |-> FALSE, id |-> NoId, timestamp |-> 0, source |-> <<>>, target |-> <<>>,
   payload |-> VUndefined, requiresResponse |-> FALSE, responseToId |-> NoId,
   isResponse |-> FALSE, status |-> ""]

VARIABLES
  now,                    \* Date.now()
  ticks,                  \* clock advances so far
  allowedOrigins,         \* this.options.allowedOrigins, per bridge
  messageTimeout,         \* this.options.messageTimeout, per bridge
  messageHandlers,        \* this.messageHandlers: own properties, per bridge
  globalMessageCallback,  \* this.globalMessageCallback, per bridge
  pendingResponses,       \* this.pendingResponses: own properties, per bridge
  messageCounter,         \* this.messageCounter, per bridge
  timers,                 \* armed setTimeout timers
  deferred,               \* the promises postMessage returned, per bridge and id
  net,                    \* envelopes handed to the transport, not yet delivered
  jobs,                   \* handler results awaiting their then/catch callback
  windows,                \* the windows that run a bridge
  emitter,                \* the EventEmitter: its listeners and the emits in progress
  last                    \* what the last step was

vars == <<now, ticks, allowedOrigins, messageTimeout, messageHandlers,
          globalMessageCallback, pendingResponses, messageCounter, timers,
          deferred, net, jobs, windows, emitter, last>>


(***************************************************************************)
(* OriginPolicy: _isOriginAllowed, lines 862-889.                          *)
(***************************************************************************)
RECURSIVE RegExpTest(_, _)
\* new RegExp(`^${allowedOrigin.replace(/\*/g, '.*')}$`).test(origin): each "*" of
\* the entry became ".*", and a "." of the entry is the RegExp's any-character.
RegExpTest(pattern, origin) ==
  IF pattern = <<>> THEN origin = <<>>
  ELSE IF Head(pattern) = "*"
    THEN \/ RegExpTest(Tail(pattern), origin)
         \/ origin # <<>> /\ RegExpTest(pattern, Tail(origin))
  ELSE IF Head(pattern) = "."
    THEN origin # <<>> /\ RegExpTest(Tail(pattern), Tail(origin))
  ELSE origin # <<>> /\ Head(origin) = Head(pattern)
         /\ RegExpTest(Tail(pattern), Tail(origin))

\* allowedOrigin.includes('*')
HasWildcard(pattern) == \E i \in 1..Len(pattern) : pattern[i] = "*"

\* the callback of allowedOrigins.some(...), lines 874-888
EntryAllows(allowedOrigin, origin) ==
  IF allowedOrigin = origin THEN TRUE
  ELSE IF HasWildcard(allowedOrigin) THEN RegExpTest(allowedOrigin, origin)
  ELSE FALSE

\* a policy that fails open: an empty list allows every origin
IsOriginAllowedFailOpen(list, origin) ==
  IF Len(list) = 0 THEN TRUE
  ELSE IF \E i \in 1..Len(list) : list[i] = Star THEN TRUE
  ELSE \E i \in 1..Len(list) : EntryAllows(list[i], origin)

IsOriginAllowed(list, origin) ==
  IF Len(list) = 0 THEN FALSE
  ELSE IF \E i \in 1..Len(list) : list[i] = Star THEN TRUE
  ELSE \E i \in 1..Len(list) : EntryAllows(list[i], origin)

(***************************************************************************)
(* Envelope validation: _validateMessage, lines 826-844.                   *)
(***************************************************************************)
\* A timestamp that is a string and no number ('soon'): it is truthy, and
\* Date.now() - 'soon' is NaN, for which every comparison is false.
TextTimestamp == -1
IsNumber(timestamp) == timestamp # TextTimestamp

\* a validation without the timestamp check of lines 838-841
ValidateMessageAnyAge(message, t) ==
  IF ~message.isObj THEN FALSE
  ELSE IF \/ message.id.pfx = ""
          \/ message.timestamp = 0
          \/ message.source = <<>>
          \/ ~Truthy(message.payload) THEN FALSE
  ELSE TRUE

ValidateMessage(message, t) ==
  IF ~message.isObj THEN FALSE
  ELSE IF \/ message.id.pfx = ""
          \/ message.timestamp = 0
          \/ message.source = <<>>
          \/ ~Truthy(message.payload) THEN FALSE
  ELSE IF /\ IsNumber(message.timestamp)
          /\ (t - message.timestamp < 0 \/ t - message.timestamp > MaxMessageAge)
    THEN FALSE
  ELSE TRUE

(***************************************************************************)
(* The transport, window.parent.postMessage(data, targetOrigin): it throws *)
(* a DOMException when targetOrigin is neither "*" nor an origin, or when  *)
(* the data holds a value the structured clone cannot copy (a function).   *)
(***************************************************************************)
BadTarget == <<"?">>
VFunctionInside == JSV("object", "", "function", "", "")
TransportThrows(data, targetOrigin) ==
  targetOrigin = BadTarget \/ data.payload.data = "function"
Event(origin, target, data) == [origin |-> origin, target |-> target, data |-> data]
\* the browser delivers an event only to a window of the target origin
Reaches(ev, b) == ev.target = Star \/ ev.target = OriginOf(b)
\* of the events handed to the transport, those that go to a window running a
\* bridge; the others leave the model
Handed(events) == {ev \in events : \E w \in windows : Reaches(ev, w)}

\* Payloads at the size limit: "full" serializes to DefaultMaxMessageSize ASCII
\* characters, "huge" to one more, "wide" to DefaultMaxMessageSize characters of
\* which one takes two bytes in UTF-8.
VFull == JSV("object", "", "full", "", "")
VHuge == JSV("object", "", "huge", "", "")
VWide == JSV("object", "", "wide", "", "")
\* JSON.stringify(message).length: the UTF-16 code units of the serialization
JsonLength(payload) ==
  IF payload.data = "huge" THEN DefaultMaxMessageSize + 1
  ELSE IF payload.data \in {"full", "wide"} THEN DefaultMaxMessageSize
  ELSE 16
\* the bytes of the same serialization
Utf8Length(payload) ==
  IF payload.data = "wide" THEN JsonLength(payload) + 1 ELSE JsonLength(payload)

(***************************************************************************)
(* Promises.  calls counts the invocations of the resolve and reject       *)
(* continuations stored in pendingResponses, removals the deletions of a   *)
(* present entry; a promise keeps its first settlement.                    *)
(***************************************************************************)
NewPromise ==
  [state |-> "pending", kind |-> "", value |-> VUndefined, calls |-> 0, removals |-> 0]
Settled(p, state, kind, value) ==
  IF p.state = "pending"
    THEN [p EXCEPT !.state = state, !.kind = kind, !.value = value]
    ELSE p
\* a resolve that loses its argument
CallResolveEmpty(p, value) ==
  [Settled(p, "fulfilled", "", VUndefined) EXCEPT !.calls = p.calls + 1]
\* resolve(value) and reject(error), called through the stored continuation
CallResolve(p, value) ==
  [Settled(p, "fulfilled", "", value) EXCEPT !.calls = p.calls + 1]
CallReject(p, kind, value) ==
  [Settled(p, "rejected", kind, value) EXCEPT !.calls = p.calls + 1]
\* new UniCanvasError(code, message, details): the class of UniCanvasError.js, which
\* the bridge names without importing it and is taken to resolve to that class
ErrorValue(message, details) == JSV("error", "", "", message, details)

\* what a step did: the operation, the bridge, the class of its input or its
\* outcome, the callback it invoked, what left it uncaught ("no", "exception" or
\* "rejection", an unhandled promise rejection), the transport calls that took an
\* envelope, the message id it was about (of a response: its responseToId),
\* whether that id had a live entry before the step, the payload and the status
\* of a response that named a live entry (or the value a handler gave, or the
\* payload given to postMessage), and the origin _isOriginAllowed was asked
\* about (or the target given to postMessage); of a call of postMessage also
\* the state of the promise it returned (status) and options.timeoutMs (ms); of
\* a request the listener took, its payload.type, its requiresResponse (rr) and
\* its source (origin), what its handler called of the bridge or its fallback
\* did (status), and the callback that was invoked (by); of a message that
\* passed the origin check, the origin it came from (from)
Step(op, b, cls, invoked, threw, sent, id, live) ==
  [op |-> op, b |-> b, cls |-> cls, invoked |-> invoked, threw |-> threw,
   sent |-> sent, id |-> id, live |-> live, val |-> VUndefined, status |-> "",
   origin |-> <<>>, ms |-> 0, type |-> "", rr |-> FALSE, by |-> "", from |-> <<>>]
NoStep == Step("init", 0, "", "none", "no", 0, NoId, FALSE)

\* an object literal {} with its own properties in a function
EmptyMap == [k \in {} |-> NoId]
\* a delete that leaves the property in place
WithoutNothing(map, key) == map
Without(map, key) == [k \in DOMAIN map \ {key} |-> map[k]]
\* delete map[key] counts as a removal when the key was there
RemovalsOf(map, key) == IF key \in DOMAIN map THEN 1 ELSE 0

NoHandler == "none"
HandlerIds == {"h1"}
Types == {"ping"}
NoFallback == "none"
FallbackIds == {"f1"}

(***************************************************************************)
(* EventEmitter, lines 313-511, for one event name: events is the list     *)
(* this.events[event] of items {listener, once}; stack holds the emit      *)
(* calls in progress, the innermost last, each with the copy of the list   *)
(* it iterates (line 415) and the index of the item whose listener runs;   *)
(* calls counts the invocations of each listener and added tells how each  *)
(* listener was registered.                                                *)
(***************************************************************************)
Listeners == {"f", "g"}
\* lines 314-318
NewEmitter ==
  [events |-> <<>>, stack |-> <<>>, calls |-> [l \in Listeners |-> 0],
   added |-> [l \in Listeners |-> "no"]]

(***************************************************************************)
(* The constructor, lines 521-540.                                         *)
(***************************************************************************)
Constructed(ws) ==
  /\ windows = ws
  /\ emitter = NewEmitter
  /\ now = StartTime
  /\ ticks = 0
  /\ allowedOrigins = [b \in Bridges |-> <<>>]
  /\ messageTimeout = [b \in Bridges |-> DefaultMessageTimeout]
  /\ messageHandlers = [b \in Bridges |-> [t \in Types |-> NoHandler]]
  /\ globalMessageCallback = [b \in Bridges |-> NoFallback]
  /\ pendingResponses = [b \in Bridges |-> EmptyMap]
  /\ messageCounter = [b \in Bridges |-> 0]
  /\ timers = {}
  /\ deferred = [b \in Bridges |-> EmptyMap]
  /\ net = {}
  /\ jobs = {}
  /\ last = NoStep

\* one bridge, among windows that run none
Init == Constructed({1})

(***************************************************************************)
(* postMessage, lines 570-633.                                             *)
(***************************************************************************)
\* _generateMessageId, lines 851-854, after this.messageCounter++
GenerateMessageId(b, r) == MessageId(now, messageCounter[b] + 1, r)

\* the entry stored at lines 619-623: the continuations of the promise of id
\* and the handle of the timer armed for id
PendingEntry(id) == [promise |-> id, timeoutId |-> id]
\* setTimeout(..., this.options.messageTimeout), lines 610-616
Timer(b, id) == [b |-> b, id |-> id, due |-> now + messageTimeout[b]]
\* a clearTimeout that clears nothing, and one that clears every timer of b
ClearTimeoutNoOp(b, handle) == timers
ClearTimeoutAll(b, handle) == {t \in timers : t.b # b}
\* clearTimeout(handle)
ClearTimeout(b, handle) == {t \in timers : ~(t.b = b /\ t.id = handle)}

\* the options of postMessage: requiresResponse is read at lines 598 and 607,
\* timeoutMs (0 when it is not given) nowhere
NoTimeoutMs == 0
Options(requiresResponse, timeoutMs) ==
  [requiresResponse |-> requiresResponse, timeoutMs |-> timeoutMs]

\* checks without the size check of lines 579-586
SendErrorAnySize(message, targetOrigin) ==
  IF ~Truthy(message) \/ ~IsObject(message) THEN "INVALID_MESSAGE"
  ELSE IF targetOrigin = <<>> THEN "INVALID_TARGET"
  ELSE ""
\* the checks of lines 571-586: the code of the error thrown, "" when none is
SendError(message, targetOrigin) ==
  IF ~Truthy(message) \/ ~IsObject(message) THEN "INVALID_MESSAGE"
  ELSE IF targetOrigin = <<>> THEN "INVALID_TARGET"
  ELSE IF JsonLength(message) > DefaultMaxMessageSize THEN "MESSAGE_TOO_LARGE"
  ELSE ""

\* an envelope without the timestamp of line 594
FullMessageUnstamped(b, id, message, targetOrigin, requiresResponse) ==
  Envelope(id, 0, OriginOf(b), targetOrigin, message, requiresResponse, NoId, FALSE, "")
\* lines 592-599
FullMessage(b, id, message, targetOrigin, requiresResponse) ==
  Envelope(id, now, OriginOf(b), targetOrigin, message, requiresResponse,
           NoId, FALSE, "")

\* the record of a call of postMessage: its outcome, the id it stamped, the
\* payload, the target and the options it was given
SendStep(b, cls, threw, sent, id, full, targetOrigin, returned, options) ==
  [Step("send", b, cls, "none", threw, sent, id, FALSE)
     EXCEPT !.val = full.payload, !.origin = targetOrigin, !.status = returned,
            !.ms = options.timeoutMs, !.rr = options.requiresResponse]

\* lines 607-627: the promise, the timer and the entry, then the transport call;
\* an exception of the transport call rejects the promise in its executor
SendAwaiting(b, id, full, targetOrigin, options) ==
  /\ messageCounter' = [messageCounter EXCEPT ![b] = @ + 1]
  /\ timers' = timers \cup {Timer(b, id)}
  /\ pendingResponses' = [pendingResponses EXCEPT ![b] = (id :> PendingEntry(id)) @@ @]
  /\ IF TransportThrows(full, targetOrigin)
       THEN /\ deferred' = [deferred EXCEPT ![b] =
                 (id :> Settled(NewPromise, "rejected", "DOMException",
                                ErrorValue("transport", ""))) @@ @]
            /\ net' = net
            /\ last' = SendStep(b, "transportThrew", "no", 0, id, full, targetOrigin,
                                "rejected", options)
       ELSE /\ deferred' = [deferred EXCEPT ![b] = (id :> NewPromise) @@ @]
            /\ Cardinality(net \cup Handed({Event(OriginOf(b), targetOrigin, full)}))
                 <= MaxNet
            /\ net' = net \cup Handed({Event(OriginOf(b), targetOrigin, full)})
            /\ last' = SendStep(b, "awaiting", "no", 1, id, full, targetOrigin,
                                "pending", options)

\* a one-way send that takes the path of lines 607-627
SendOneWayAwaits(b, id, full, targetOrigin, options) ==
  SendAwaiting(b, id, full, targetOrigin, options)
\* lines 628-632: the transport call, then Promise.resolve({sent: true, id})
SendOneWay(b, id, full, targetOrigin, options) ==
  /\ messageCounter' = [messageCounter EXCEPT ![b] = @ + 1]
  /\ UNCHANGED <<timers, pendingResponses, deferred>>
  /\ IF TransportThrows(full, targetOrigin)
       THEN /\ net' = net
            /\ last' = SendStep(b, "transportThrew", "exception", 0, id, full,
                                targetOrigin, "", options)
       ELSE /\ Cardinality(net \cup Handed({Event(OriginOf(b), targetOrigin, full)}))
                 <= MaxNet
            /\ net' = net \cup Handed({Event(OriginOf(b), targetOrigin, full)})
            /\ last' = SendStep(b, "sent", "no", 1, id, full, targetOrigin,
                                "fulfilled", options)

PostMessage(b, message, targetOrigin, options, r) ==
  /\ UNCHANGED <<now, ticks, allowedOrigins, messageTimeout, messageHandlers,
                 globalMessageCallback, jobs, windows, emitter>>
  /\ IF SendError(message, targetOrigin) # ""
       THEN /\ UNCHANGED <<messageCounter, timers, pendingResponses, deferred, net>>
            /\ last' = SendStep(b, SendError(message, targetOrigin), "exception", 0,
                                NoId, [payload |-> message], targetOrigin, "", options)
       ELSE /\ messageCounter[b] < MaxCounter
            /\ LET id == GenerateMessageId(b, r)
                   full == FullMessage(b, id, message, targetOrigin,
                                       options.requiresResponse)
               IN IF options.requiresResponse
                    THEN SendAwaiting(b, id, full, targetOrigin, options)
                    ELSE SendOneWay(b, id, full, targetOrigin, options)

(***************************************************************************)
(* The timeout callback, lines 610-616.                                    *)
(***************************************************************************)
\* a timeout callback without the delete of line 611
TimeoutCallbackKeepsEntry(b, tm) ==
  /\ tm \in timers /\ tm.b = b
  /\ now >= tm.due
  /\ timers' = timers \ {tm}
  /\ pendingResponses' = pendingResponses
  /\ deferred' = [deferred EXCEPT ![b][tm.id] =
        CallReject(@, "RESPONSE_TIMEOUT", ErrorValue("timeout", ""))]
  /\ last' = Step("timer", b, "RESPONSE_TIMEOUT", "none", "no", 0, tm.id,
                  tm.id \in DOMAIN pendingResponses[b])
  /\ UNCHANGED <<now, ticks, allowedOrigins, messageTimeout, messageHandlers,
                 globalMessageCallback, messageCounter, net, jobs, windows, emitter>>

TimeoutCallback(b, tm) ==
  /\ tm \in timers /\ tm.b = b
  /\ now >= tm.due
  /\ timers' = timers \ {tm}
  /\ pendingResponses' = [pendingResponses EXCEPT ![b] = Without(@, tm.id)]
  /\ deferred' = [deferred EXCEPT ![b][tm.id] =
        [CallReject(@, "RESPONSE_TIMEOUT", ErrorValue("timeout", ""))
           EXCEPT !.removals = @ + RemovalsOf(pendingResponses[b], tm.id)]]
  /\ last' = Step("timer", b, "RESPONSE_TIMEOUT", "none", "no", 0, tm.id,
                  tm.id \in DOMAIN pendingResponses[b])
  /\ UNCHANGED <<now, ticks, allowedOrigins, messageTimeout, messageHandlers,
                 globalMessageCallback, messageCounter, net, jobs, windows, emitter>>

(***************************************************************************)
(* The clock.                                                              *)
(***************************************************************************)
\* time passes: d is the delay after which a timer armed now is due, or an age
\* at which a message is no longer valid
Tick(d) ==
  /\ ticks < MaxTicks
  /\ ticks' = ticks + 1
  /\ now' = now + d
  /\ last' = Step("tick", 0, "", "none", "no", 0, NoId, FALSE)
  /\ UNCHANGED <<allowedOrigins, messageTimeout, messageHandlers,
                 globalMessageCallback, pendingResponses, messageCounter, timers,
                 deferred, net, jobs, windows, emitter>>


(***************************************************************************)
(* respondToMessage, lines 678-706, and the callbacks that call it.        *)
(***************************************************************************)
\* a response that names itself instead of the message it answers
ResponseMessageUnbound(b, id, messageId, responseData, status) ==
  Envelope(id, now, OriginOf(b), <<>>, responseData, FALSE, id, TRUE,
           IF status = "" THEN "success" ELSE status)
ResponseMessage(b, id, messageId, responseData, status) ==
  Envelope(id, now, OriginOf(b), <<>>, responseData, FALSE, messageId, TRUE,
           IF status = "" THEN "success" ELSE status)
\* a response that goes to every window, whatever options names
ResponseTargetStar(targetOrigin) == Star
\* lines 698-703: options.targetOrigin, or '*' without one
ResponseTarget(targetOrigin) == IF targetOrigin = <<>> THEN Star ELSE targetOrigin

\* One call of respondToMessage as the n-th envelope this step builds: what it
\* hands to the transport, and whether the transport call throws.
Respond(b, n, r, messageId, responseData, targetOrigin, status) ==
  LET resp == ResponseMessage(b, MessageId(now, messageCounter[b] + n, r), messageId,
                              responseData, status)
      target == ResponseTarget(targetOrigin)
  IN [throws |-> TransportThrows(resp, target),
      out |-> IF TransportThrows(resp, target) THEN {}
              ELSE {Event(OriginOf(b), target, resp)}]

\* what a callback chain did: envelopes built, events handed over, what escaped
Effect(count, out, threw) == [count |-> count, out |-> out, threw |-> threw]
\* a thrown value or a rejection reason without properties to read
Nullish(v) == v.tag \in {"undefined", "null"}
\* the payload the catch callbacks build from an error, lines 775-778 and 804-807
ErrorResponse(error) == ErrorPayload(error.message, error.details)
TransportError == ErrorValue("DOMException", "")

\* lines 770-782: Promise.resolve(result).then(respond).catch(respond the error),
\* run once result has settled (ok: fulfilled with val, else rejected with val)
\* message: the id and the source of the message being answered
ThenCatch(b, message, ok, val, r1, r2) ==
  LET first == Respond(b, 1, r1, message.id, val, message.source, "")
      second == Respond(b, 2, r2, message.id, ErrorResponse(TransportError),
                        message.source, "error")
      failed == Respond(b, 1, r1, message.id, ErrorResponse(val), message.source, "error")
  IN IF ok
       THEN IF ~first.throws THEN Effect(1, first.out, "no")
            ELSE Effect(2, second.out, IF second.throws THEN "rejection" ELSE "no")
     \* error.message of undefined or null is a TypeError: the promise of the
     \* chain is rejected and nothing handles it
     ELSE IF Nullish(val) THEN Effect(0, {}, "rejection")
     ELSE Effect(1, failed.out, IF failed.throws THEN "rejection" ELSE "no")

\* lines 799-811: the catch block of the listener, after count envelopes were built
CatchBlock(b, message, error, count, r) ==
  LET resp == Respond(b, count + 1, r, message.id, ErrorResponse(error),
                      message.source, "error")
  IN IF ~message.requiresResponse THEN Effect(count, {}, "no")
     \* error.message of undefined or null is a TypeError that leaves the listener
     ELSE IF Nullish(error) THEN Effect(count, {}, "exception")
     ELSE Effect(count + 1, resp.out, IF resp.throws THEN "exception" ELSE "no")

(***************************************************************************)
(* What handlers and the fallback may do when they are called.             *)
(***************************************************************************)
Falsy == {VUndefined, VNull, VFalse, VZero, VEmptyString}
ReturnValues == {VPong} \cup Falsy
Boom == ErrorValue("boom", "details")
Behaviour(mode, val) == [mode |-> mode, val |-> val]
\* a handler returns a value or throws
Immediate(values) ==
  {Behaviour("return", v) : v \in values} \cup {Behaviour("throw", Boom)}
\* or it returns a promise, fulfilled or rejected later
Promised(values) ==
  {Behaviour("resolve", v) : v \in values} \cup {Behaviour("reject", Boom)}
\* what a handler may throw or reject with: an error with details, an error
\* without, or nothing (throw undefined, Promise.reject())
Failures == {Boom, ErrorValue("boom", ""), VUndefined}
\* the fallback ignores the respond capability, calls it once or twice, throws,
\* or calls it and then throws
FallbackBehaviours ==
  {Behaviour("silent", VUndefined), Behaviour("respond", VPong),
   Behaviour("throw", Boom), Behaviour("respondTwice", VPong),
   Behaviour("respondThenThrow", VPong)}

\* this.messageHandlers[messageType], line 761: an own property, or what {} inherits
HandlerLookup(b, type) ==
  IF type \in Types /\ messageHandlers[b][type] # NoHandler THEN messageHandlers[b][type]
  ELSE IF type \in ProtoKeys THEN "Object." \o type
  ELSE NoHandler
\* Object(payload, meta) returns payload; Object.prototype.toString() a string
BehavioursOf(handler, message, behaviours) ==
  IF handler = "Object.constructor" THEN {Behaviour("return", message.payload)}
  ELSE IF handler = "Object.toString" THEN {Behaviour("return", VText)}
  ELSE behaviours

\* what the then/catch callbacks keep of the message
Meta(message) == [id |-> message.id, source |-> message.source]
Job(b, message, ok, val) ==
  [b |-> b, message |-> Meta(message), ok |-> ok, val |-> val]


(***************************************************************************)
(* The message listener, lines 713-813.  base is what the transport holds  *)
(* once the event is delivered; about describes the event for the step     *)
(* record.                                                                 *)
(***************************************************************************)
\* what is wrong with a message, in the words of the envelope contract: "" when
\* nothing is
Defect(message, t) ==
  IF ~message.isObj THEN "not an object"
  ELSE IF message.id = NoId THEN "no id"
  ELSE IF message.timestamp = 0 THEN "no timestamp"
  ELSE IF message.source = <<>> THEN "no source"
  ELSE IF message.payload \in Falsy THEN "no payload"
  ELSE IF IsNumber(message.timestamp) /\ message.timestamp > t THEN "from the future"
  ELSE IF IsNumber(message.timestamp) /\ message.timestamp < t - MaxMessageAge
    THEN "stale"
  ELSE ""
\* the class of an event, by its origin and its data alone
ClassOf(b, origin, message) ==
  IF ~IsOriginAllowed(allowedOrigins[b], origin) THEN "originRejected"
  ELSE IF Defect(message, now) # "" THEN "invalid"
  ELSE IF message.isResponse /\ message.responseToId # NoId THEN "response"
  ELSE IF message.isResponse THEN "responseNoId"
  ELSE "request"
\* the id a message is about, and whether an entry of the table awaits it
AboutId(message) == IF message.isResponse THEN message.responseToId ELSE message.id
AwaitedBy(b, message) ==
  message.isResponse /\ message.responseToId \in DOMAIN pendingResponses[b]
Received(b, origin, message) ==
  LET cls == ClassOf(b, origin, message)
      awaited == AwaitedBy(b, message)
  IN [Step("recv", b, cls, "none", "no", 0, AboutId(message), awaited)
        EXCEPT !.val = IF awaited THEN message.payload ELSE VUndefined,
               !.status = IF awaited THEN message.status ELSE "",
               !.type = IF cls = "request" THEN message.payload.type ELSE "",
               !.rr = cls = "request" /\ message.requiresResponse,
               !.origin = IF cls = "request" THEN message.source ELSE <<>>,
               !.from = IF cls = "originRejected" THEN <<>> ELSE origin]

\* the listener returns early (lines 719, 727, 754), or finds nothing to do
Ignore(b, about, base, threw) ==
  /\ UNCHANGED <<pendingResponses, timers, deferred, messageCounter, jobs>>
  /\ net' = base
  /\ last' = [about EXCEPT !.threw = threw]

\* message.payload.message || 'Remote error'
RemoteMessage(payload) == IF payload.message = "" THEN "Remote error" ELSE payload.message

\* lines 740-752, for an entry found in pendingResponses
SettleEntry(b, message, about, base) ==
  LET key == message.responseToId
      entry == pendingResponses[b][key]
  IN /\ timers' = ClearTimeout(b, entry.timeoutId)
     /\ deferred' = [deferred EXCEPT ![b][entry.promise] =
          [(IF message.status = "error"
              THEN CallReject(@, "REMOTE_ERROR",
                     ErrorValue(RemoteMessage(message.payload), message.payload.details))
              ELSE CallResolve(@, message.payload))
             EXCEPT !.removals = @ + RemovalsOf(pendingResponses[b], key)]]
     /\ pendingResponses' = [pendingResponses EXCEPT ![b] = Without(@, key)]
     /\ net' = base
     /\ last' = about
     /\ UNCHANGED <<messageCounter, jobs>>

\* this.pendingResponses[message.responseToId], line 738: "own" for an entry of
\* the table, "inherited" for what {} has from Object.prototype, else "undefined"
PendingLookup(b, key) ==
  IF key \in DOMAIN pendingResponses[b] THEN "own"
  ELSE IF key = NamedId(key.pfx) /\ key.pfx \in ProtoKeys THEN "inherited"
  ELSE "undefined"

\* a listener that settles only with a response whose source is its sender
OnResponseChecked(b, message, about, base) ==
  IF PendingLookup(b, message.responseToId) = "own" /\ about.from = message.source
    THEN SettleEntry(b, message, about, base)
    ELSE Ignore(b, about, base, "no")
\* lines 737-755
OnResponse(b, message, about, base) ==
  LET found == PendingLookup(b, message.responseToId)
  IN IF found = "own" THEN SettleEntry(b, message, about, base)
     \* an inherited value is truthy and has no resolve and no reject: a TypeError
     ELSE IF found = "inherited" THEN Ignore(b, about, base, "exception")
     ELSE Ignore(b, about, base, "no")

\* the effect of a dispatch on the counter, the transport and the job queue
Dispatched(b, about, base, eff, newJobs, invoked, threw) ==
  /\ messageCounter[b] + eff.count <= MaxCounter
  /\ Cardinality(base \cup Handed(eff.out)) <= MaxNet
  /\ messageCounter' = [messageCounter EXCEPT ![b] = @ + eff.count]
  /\ net' = base \cup Handed(eff.out)
  /\ jobs' = newJobs
  /\ last' = [about EXCEPT !.invoked = invoked, !.threw = threw,
                           !.sent = Cardinality(eff.out)]
  /\ UNCHANGED <<pendingResponses, timers, deferred>>

NoEffect == Effect(0, {}, "no")

\* lines 761-783: the handler is called; a value it returns is answered in the
\* microtask that follows, a promise it returns once that promise settles
CallHandler(b, message, received, base, beh, r1, r2) ==
  LET rr == message.requiresResponse
      about == [received EXCEPT !.val = beh.val]
      catch == CatchBlock(b, message, beh.val, 0, r1)
      then == ThenCatch(b, Meta(message), TRUE, beh.val, r1, r2)
  IN IF beh.mode = "throw"
       THEN Dispatched(b, about, base, catch, jobs, "handler", catch.threw)
     ELSE IF beh.mode = "return"
       THEN IF rr THEN Dispatched(b, about, base, then, jobs, "handler", then.threw)
            ELSE Dispatched(b, about, base, NoEffect, jobs, "handler", "no")
     ELSE IF rr
       THEN /\ Cardinality(jobs) < MaxJobs
            /\ Dispatched(b, about, base, NoEffect,
                          jobs \cup {Job(b, message, beh.mode = "resolve", beh.val)},
                          "handler", "no")
     \* nothing is attached to the promise: its rejection stays unhandled
     ELSE Dispatched(b, about, base, NoEffect, jobs, "handler",
                     IF beh.mode = "reject" THEN "rejection" ELSE "no")

\* lines 784-798: the fallback is called with the respond capability
CallFallback(b, message, received, base, beh, r1, r2) ==
  LET rr == message.requiresResponse
      about == [received EXCEPT !.val = beh.val, !.status = beh.mode]
      reply == Respond(b, 1, r1, message.id, beh.val, message.source, "")
      again == Respond(b, 2, r2, message.id, beh.val, message.source, "")
      afterThrow == CatchBlock(b, message, Boom, 0, r1)
      afterReply == CatchBlock(b, message, TransportError, 1, r2)
      thrownAfter == CatchBlock(b, message, Boom, 1, r2)
  IN IF beh.mode = "throw"
       THEN Dispatched(b, about, base, afterThrow, jobs, "fallback", afterThrow.threw)
     \* two calls of respond build and send two envelopes
     ELSE IF beh.mode = "respondTwice" /\ rr /\ ~reply.throws
       THEN Dispatched(b, about, base, Effect(2, reply.out \cup again.out, "no"), jobs,
                       "fallback", "no")
     \* respond, then an exception that the catch block answers as well
     ELSE IF beh.mode = "respondThenThrow" /\ rr /\ ~reply.throws
       THEN Dispatched(b, about, base,
                       Effect(thrownAfter.count, reply.out \cup thrownAfter.out,
                              thrownAfter.threw),
                       jobs, "fallback", thrownAfter.threw)
     ELSE IF beh.mode = "respondThenThrow" /\ ~rr
       THEN Dispatched(b, about, base, NoEffect, jobs, "fallback", "no")
     ELSE IF beh.mode \in {"respond", "respondTwice", "respondThenThrow"} /\ rr
       THEN IF reply.throws
              THEN Dispatched(b, about, base, afterReply, jobs, "fallback",
                              afterReply.threw)
              ELSE Dispatched(b, about, base, Effect(1, reply.out, "no"), jobs,
                              "fallback", "no")
     ELSE Dispatched(b, about, base, NoEffect, jobs, "fallback", "no")

\* lines 758-798
Dispatch(b, message, about, base, behaviours) ==
  LET messageType == message.payload.type
      handler == HandlerLookup(b, messageType)
  IN IF messageType # "" /\ handler # NoHandler
       THEN \E beh \in BehavioursOf(handler, message, behaviours),
               r1, r2 \in RandomSuffixes :
              CallHandler(b, message, [about EXCEPT !.by = handler], base, beh, r1, r2)
     ELSE IF globalMessageCallback[b] # NoFallback
       THEN \E beh \in FallbackBehaviours, r1, r2 \in RandomSuffixes :
              CallFallback(b, message, [about EXCEPT !.by = globalMessageCallback[b]],
                           base, beh, r1, r2)
     ELSE Ignore(b, about, base, "no")

\* a listener without the origin check
GateOpen(b, origin) == TRUE
\* line 715: this._isOriginAllowed(event.origin)
Gate(b, origin) == IsOriginAllowed(allowedOrigins[b], origin)
\* line 723: this._validateMessage(event.data)
Accepts(b, message) == ValidateMessage(message, now)
\* line 737: message.isResponse && message.responseToId
IsResponse(message) == message.isResponse /\ message.responseToId.pfx # ""

Listener(b, origin, message, base, behaviours) ==
  /\ UNCHANGED <<now, ticks, allowedOrigins, messageTimeout, messageHandlers,
                 globalMessageCallback, windows, emitter>>
  /\ LET about == Received(b, origin, message)
     IN IF ~Gate(b, origin) THEN Ignore(b, about, base, "no")
        ELSE IF ~Accepts(b, message) THEN Ignore(b, about, base, "no")
        ELSE IF IsResponse(message) THEN OnResponse(b, message, about, base)
        ELSE Dispatch(b, message, about, base, behaviours)

\* the then/catch callbacks of a promise a handler returned, once it has settled
RunJob(j) ==
  /\ j \in jobs
  /\ \E r1, r2 \in RandomSuffixes :
       LET eff == ThenCatch(j.b, j.message, j.ok, j.val, r1, r2)
       IN /\ messageCounter[j.b] + eff.count <= MaxCounter
          /\ Cardinality(net \cup Handed(eff.out)) <= MaxNet
          /\ messageCounter' = [messageCounter EXCEPT ![j.b] = @ + eff.count]
          /\ net' = net \cup Handed(eff.out)
          /\ last' = [Step("job", j.b, "", "none", eff.threw, Cardinality(eff.out),
                           j.message.id, FALSE)
                        EXCEPT !.val = j.val, !.origin = j.message.source, !.rr = TRUE]
  /\ jobs' = jobs \ {j}
  /\ UNCHANGED <<now, ticks, allowedOrigins, messageTimeout, messageHandlers,
                 globalMessageCallback, pendingResponses, timers, deferred, windows,
                 emitter>>


(***************************************************************************)
(* The mutators: allowOrigins (546-561), registerHandler (640-652) and     *)
(* onMessage (658-670).                                                    *)
(***************************************************************************)
\* an allowlist that all the instances share
\* an allowOrigins that replaces the list
AllowOriginsReplaces(b, origins) ==
  /\ allowedOrigins' = [allowedOrigins EXCEPT ![b] = origins]
  /\ last' = Step("allowOrigins", b, "", "none", "no", 0, NoId, FALSE)
  /\ UNCHANGED <<now, ticks, messageTimeout, messageHandlers, globalMessageCallback,
                 pendingResponses, messageCounter, timers, deferred, net, jobs,
                 windows, emitter>>
AllowOriginsShared(b, origins) ==
  /\ allowedOrigins' = [c \in Bridges |-> allowedOrigins[c] \o origins]
  /\ last' = Step("allowOrigins", b, "", "none", "no", 0, NoId, FALSE)
  /\ UNCHANGED <<now, ticks, messageTimeout, messageHandlers, globalMessageCallback,
                 pendingResponses, messageCounter, timers, deferred, net, jobs,
                 windows, emitter>>

AllowOrigins(b, origins) ==
  /\ allowedOrigins' = [allowedOrigins EXCEPT ![b] = @ \o origins]
  /\ last' = Step("allowOrigins", b, "", "none", "no", 0, NoId, FALSE)
  /\ UNCHANGED <<now, ticks, messageTimeout, messageHandlers, globalMessageCallback,
                 pendingResponses, messageCounter, timers, deferred, net, jobs,
                 windows, emitter>>

\* the whole of allowOrigins: origins is an array of entries (items) or
\* something else; lines 547-549 refuse what is not an array
AllowOriginsCall(b, origins) ==
  IF ~origins.isArray
    THEN /\ last' = [Step("allowOrigins", b, "INVALID_ORIGINS", "none", "exception", 0,
                          NoId, FALSE) EXCEPT !.status = "other"]
         /\ UNCHANGED <<now, ticks, allowedOrigins, messageTimeout, messageHandlers,
                        globalMessageCallback, pendingResponses, messageCounter,
                        timers, deferred, net, jobs, windows, emitter>>
    ELSE AllowOrigins(b, origins.items)

\* a handler or a callback that is no function
NotAFunction == "null"

\* a registry in which the first registration for a type stays
RegisterHandlerKeepsFirst(b, type, handler) ==
  /\ messageHandlers' = [messageHandlers EXCEPT ![b][type] =
                           IF @ = NoHandler THEN handler ELSE @]
  /\ last' = [Step("registerHandler", b, "", "none", "no", 0, NoId, FALSE)
                EXCEPT !.type = type, !.by = handler]
  /\ UNCHANGED <<now, ticks, allowedOrigins, messageTimeout, globalMessageCallback,
                 pendingResponses, messageCounter, timers, deferred, net, jobs,
                 windows, emitter>>

\* the step records the type and the handler given (type, by)
RegisterHandler(b, type, handler) ==
  /\ IF handler = NotAFunction
       THEN /\ messageHandlers' = messageHandlers
            /\ last' = [Step("registerHandler", b, "INVALID_HANDLER", "none", "exception",
                             0, NoId, FALSE) EXCEPT !.type = type, !.by = handler]
       ELSE /\ messageHandlers' = [messageHandlers EXCEPT ![b][type] = handler]
            /\ last' = [Step("registerHandler", b, "", "none", "no", 0, NoId, FALSE)
                          EXCEPT !.type = type, !.by = handler]
  /\ UNCHANGED <<now, ticks, allowedOrigins, messageTimeout, globalMessageCallback,
                 pendingResponses, messageCounter, timers, deferred, net, jobs,
                 windows, emitter>>

\* an onMessage without the check of lines 659-661
OnMessageUnchecked(b, callback) ==
  /\ globalMessageCallback' = [globalMessageCallback EXCEPT ![b] = callback]
  /\ last' = [Step("onMessage", b, "", "none", "no", 0, NoId, FALSE)
                EXCEPT !.by = callback]
  /\ UNCHANGED <<now, ticks, allowedOrigins, messageTimeout, messageHandlers,
                 pendingResponses, messageCounter, timers, deferred, net, jobs,
                 windows, emitter>>

\* the step records the callback given (by)
OnMessage(b, callback) ==
  /\ IF callback = NotAFunction
       THEN /\ globalMessageCallback' = globalMessageCallback
            /\ last' = [Step("onMessage", b, "INVALID_CALLBACK", "none", "exception", 0,
                             NoId, FALSE) EXCEPT !.by = callback]
       ELSE /\ globalMessageCallback' = [globalMessageCallback EXCEPT ![b] = callback]
            /\ last' = [Step("onMessage", b, "", "none", "no", 0, NoId, FALSE)
                          EXCEPT !.by = callback]
  /\ UNCHANGED <<now, ticks, allowedOrigins, messageTimeout, messageHandlers,
                 pendingResponses, messageCounter, timers, deferred, net, jobs,
                 windows, emitter>>

\* respondToMessage called by the application, lines 678-706: targetOrigin is
\* <<>> when options names none; the step records the message id, the data, the
\* target given and the target used (from)
RespondToMessage(b, messageId, responseData, targetOrigin, r) ==
  /\ UNCHANGED <<now, ticks, allowedOrigins, messageTimeout, messageHandlers,
                 globalMessageCallback, pendingResponses, timers, deferred, jobs,
                 windows, emitter>>
  /\ IF messageId = NoId
       THEN /\ UNCHANGED <<messageCounter, net>>
            /\ last' = [Step("respond", b, "INVALID_MESSAGE_ID", "none", "exception", 0,
                             messageId, FALSE)
                          EXCEPT !.val = responseData, !.origin = targetOrigin]
       ELSE LET resp == Respond(b, 1, r, messageId, responseData, targetOrigin, "")
            IN /\ messageCounter[b] < MaxCounter
               /\ Cardinality(net \cup Handed(resp.out)) <= MaxNet
               /\ messageCounter' = [messageCounter EXCEPT ![b] = @ + 1]
               /\ net' = net \cup Handed(resp.out)
               /\ last' = [Step("respond", b,
                                IF resp.throws THEN "transportThrew" ELSE "sent", "none",
                                IF resp.throws THEN "exception" ELSE "no",
                                Cardinality(resp.out), messageId, FALSE)
                             EXCEPT !.val = responseData, !.origin = targetOrigin]

\* one call of _isOriginAllowed(origin), lines 862-889, and what it returned
IsAllowedCall(b, origin) ==
  /\ last' = [Step("isAllowed", b,
                   IF IsOriginAllowed(allowedOrigins[b], origin) THEN "true" ELSE "false",
                   "none", "no", 0, NoId, FALSE) EXCEPT !.origin = origin]
  /\ UNCHANGED <<now, ticks, allowedOrigins, messageTimeout, messageHandlers,
                 globalMessageCallback, pendingResponses, messageCounter, timers,
                 deferred, net, jobs, windows, emitter>>

(***************************************************************************)
(* The transport and the other windows.                                    *)
(***************************************************************************)
\* an envelope a bridge handed to the transport arrives at bridge b
Deliver(b, ev, behaviours) ==
  /\ ev \in net
  /\ Reaches(ev, b)
  /\ Listener(b, ev.origin, ev.data, net \ {ev}, behaviours)

\* an envelope arrives at a window that runs no bridge
Lose(ev) ==
  /\ ev \in net
  /\ net' = net \ {ev}
  /\ last' = Step("lose", 0, "", "none", "no", 0, NoId, FALSE)
  /\ UNCHANGED <<now, ticks, allowedOrigins, messageTimeout, messageHandlers,
                 globalMessageCallback, pendingResponses, messageCounter, timers,
                 deferred, jobs, windows, emitter>>

\* what another window may post: any data, with any timestamp around now
Ages == {-1, 0, MaxMessageAge, MaxMessageAge + 1}
ForeignId == NamedId("x")
ForgedRequests(b) ==
  {Envelope(ForeignId, now - age, src, OriginOf(b), payload, rr, NoId, FALSE, "") :
     age \in {0}, src \in {OriginEvil, BadTarget},
     payload \in {Request("ping"), Request("constructor"), Request("")},
     rr \in BOOLEAN}
\* every id this bridge ever awaited, a foreign one, and names {} inherits
ResponseKeys(b) ==
  DOMAIN deferred[b] \cup {ForeignId} \cup {NamedId(k) : k \in ProtoKeys}
ForgedResponses(b) ==
  {Envelope(ForeignId, now, OriginEvil, <<>>, payload, FALSE, key, TRUE, status) :
     payload \in {VPong, VData},
     key \in ResponseKeys(b), status \in {"success", "error"}}
WellFormed(b) == Envelope(ForeignId, now, OriginEvil, OriginOf(b), Request("ping"), TRUE,
                          NoId, FALSE, "")
Malformed(b) ==
  {NonObject,
   [WellFormed(b) EXCEPT !.id = NoId],
   [WellFormed(b) EXCEPT !.timestamp = 0],
   [WellFormed(b) EXCEPT !.source = <<>>]}
    \cup {[WellFormed(b) EXCEPT !.payload = v] :
            v \in {VUndefined, VNull, VFalse, VZero, VEmptyString}}
    \cup {[WellFormed(b) EXCEPT !.timestamp = now - age] : age \in Ages \ {0}}
    \cup {[m EXCEPT !.payload = VZero] : m \in ForgedResponses(b)}
\* messages marked isResponse that name no request
Unmatched(b) ==
  {Envelope(ForeignId, now, OriginEvil, OriginOf(b), Request("ping"), rr, NoId, TRUE,
            "success") : rr \in BOOLEAN}
Forged(b) ==
  ForgedRequests(b) \cup ForgedResponses(b) \cup Malformed(b) \cup Unmatched(b)

Inject(b, origin, message, behaviours) ==
  Listener(b, origin, message, net, behaviours)

(***************************************************************************)
(* A transport that calls the listener of the sender with the reply before *)
(* its own call returns (a same-process peer), lines 607-627 and 737-755.  *)
(***************************************************************************)
\* a table looked up before line 619 has stored the entry
TableBeforeStore(b, id) == pendingResponses[b]
\* this.pendingResponses when line 626 calls the transport
TableAtTransportCall(b, id) == (id :> PendingEntry(id)) @@ pendingResponses[b]

SendSyncReply(b, message, targetOrigin, r, payload) ==
  LET id == GenerateMessageId(b, r)
      full == FullMessage(b, id, message, targetOrigin, TRUE)
      reply == Envelope(ForeignId, now, targetOrigin, OriginOf(b), payload, FALSE, id,
                        TRUE, "success")
      found == id \in DOMAIN TableAtTransportCall(b, id)
  IN /\ SendError(message, targetOrigin) = ""
     /\ ~TransportThrows(full, targetOrigin)
     /\ messageCounter[b] < MaxCounter
     /\ Gate(b, targetOrigin) /\ Accepts(b, reply) /\ IsResponse(reply)
     /\ messageCounter' = [messageCounter EXCEPT ![b] = @ + 1]
     \* the listener clears and deletes what lines 610-623 armed and stored
     /\ timers' = IF found THEN timers ELSE timers \cup {Timer(b, id)}
     /\ pendingResponses' =
          IF found THEN pendingResponses
          ELSE [pendingResponses EXCEPT ![b] = (id :> PendingEntry(id)) @@ @]
     /\ deferred' = [deferred EXCEPT ![b] =
          (id :> IF found THEN [CallResolve(NewPromise, payload) EXCEPT !.removals = 1]
                 ELSE NewPromise) @@ @]
     /\ last' = [Step("sendSync", b, IF found THEN "settled" ELSE "missed", "none", "no",
                      1, id, found)
                   EXCEPT !.val = payload,
                          !.status = IF found THEN "fulfilled" ELSE "pending"]
     /\ UNCHANGED <<now, ticks, allowedOrigins, messageTimeout, messageHandlers,
                    globalMessageCallback, net, jobs, windows, emitter>>

\* SandboxBridge has no method that tears a bridge down: an application that is
\* done with a bridge can only drop it, and the listener, the timers and the
\* table stay as they are
Teardown(b) ==
  /\ last' = Step("teardown", b, "", "none", "no", 0, NoId, FALSE)
  /\ UNCHANGED <<now, ticks, allowedOrigins, messageTimeout, messageHandlers,
                 globalMessageCallback, pendingResponses, messageCounter, timers,
                 deferred, net, jobs, windows, emitter>>

(***************************************************************************)
(* One bridge among windows that run none: the application sends, sets the *)
(* bridge up and registers handlers that answer at once; the other windows *)
(* post whatever they like; timers fire once they are due.                 *)
(***************************************************************************)
SendPayloads == {Request("ping"), VText, VFunctionInside, VHuge}
SendTargets == {OriginB, BadTarget, <<>>}
AllowLists == {<<OriginB>>}
\* the origins of the windows that post to the bridge
Senders == {OriginB, OriginEvil}
\* what the handlers of this environment do
Answers == Immediate({VPong})

Operations(b) ==
  \/ \E message \in SendPayloads, targetOrigin \in SendTargets,
        requiresResponse \in BOOLEAN, r \in RandomSuffixes :
       \* the sends postMessage refuses are left to the sending side below
       /\ SendError(message, targetOrigin) = ""
       /\ PostMessage(b, message, targetOrigin, Options(requiresResponse, NoTimeoutMs), r)
  \/ \E origins \in AllowLists :
       /\ Len(allowedOrigins[b]) + Len(origins) <= MaxAllow
       /\ AllowOrigins(b, origins)
  \/ \E type \in Types, handler \in HandlerIds : RegisterHandler(b, type, handler)
  \/ \E callback \in FallbackIds : OnMessage(b, callback)

Next ==
  \/ Operations(1)
  \/ \E tm \in timers : TimeoutCallback(1, tm)
  \/ \E origin \in Senders, message \in Forged(1) : Inject(1, origin, message, Answers)
  \/ Tick(DefaultMessageTimeout)

Spec == Init /\ [][Next]_vars

(***************************************************************************)
(* The same bridge under a fair scheduler: the clock advances and a timer  *)
(* that is due fires.  The application acts before the last advance of the *)
(* clock, so that every timer it arms becomes due.                         *)
(***************************************************************************)
FairNext ==
  \/ ticks < MaxTicks /\ Operations(1)
  \/ \E tm \in timers : TimeoutCallback(1, tm)
  \/ \E origin \in Senders, message \in Forged(1) : Inject(1, origin, message, Answers)
  \/ Tick(DefaultMessageTimeout)

FairSpec ==
  /\ Init
  /\ [][FairNext]_vars
  /\ WF_vars(Tick(DefaultMessageTimeout))
  /\ WF_vars(\E tm \in timers : TimeoutCallback(1, tm))

(***************************************************************************)
(* The sending side: bridge 1 sends payloads of every kind and size, with  *)
(* and without timeoutMs, to a window whose bridge allows no origin; the   *)
(* window at OriginB replies to what was sent last; the application drops  *)
(* the bridge at any time.                                                 *)
(***************************************************************************)
SendInit == Constructed({1, 2})
SizedPayloads == SendPayloads \cup {VNull, VFull, VWide}
\* a timeoutMs other than the messageTimeout of the bridge
ShortTimeout == 1000
TimeoutOptions == {NoTimeoutMs, ShortTimeout}
\* a reply to the request with that id
ReplyTo(id, payload) ==
  Envelope(ForeignId, now, OriginB, OriginA, payload, FALSE, id, TRUE, "success")

SendNext ==
  \/ \E message \in SizedPayloads, targetOrigin \in SendTargets,
        requiresResponse \in BOOLEAN, timeoutMs \in TimeoutOptions,
        r \in RandomSuffixes :
       PostMessage(1, message, targetOrigin, Options(requiresResponse, timeoutMs), r)
  \/ \E r \in RandomSuffixes, payload \in {VPong, VData} :
       SendSyncReply(1, Request("ping"), OriginB, r, payload)
  \/ allowedOrigins[1] = <<>> /\ AllowOrigins(1, <<OriginB>>)
  \/ \E ev \in net : Deliver(2, ev, Answers)
  \/ \E payload \in {VPong} :
       /\ last.op = "send" /\ last.id # NoId
       /\ Inject(1, OriginB, ReplyTo(last.id, payload), Answers)
  \/ \E tm \in timers : TimeoutCallback(1, tm)
  \/ Tick(DefaultMessageTimeout)
  \/ Teardown(1)

SendSpec == SendInit /\ [][SendNext]_vars

(***************************************************************************)
(* The origin policy alone: the application extends the allowlist, entry   *)
(* by entry, and asks _isOriginAllowed about origins.                      *)
(***************************************************************************)
\* entries in the allowlist of the policy
MaxPolicy == 2

PolicyNext ==
  \/ \E pattern \in Patterns :
       /\ Len(allowedOrigins[1]) < MaxPolicy
       /\ AllowOrigins(1, <<pattern>>)
  \/ \E origin \in Origins : IsAllowedCall(1, origin)

PolicySpec == Init /\ [][PolicyNext]_vars

(***************************************************************************)
(* Two bridges, 1 at OriginA and 2 at OriginB.  Each allows the origin of  *)
(* the other and 2 registers a handler for "ping" that returns a value, at *)
(* once or as a promise; then 1 sends requests of type "ping".  The        *)
(* transport delivers what it holds before time passes, that is within the *)
(* age window and before the timeout of the requester.                     *)
(***************************************************************************)
PairInit == Constructed({1, 2})
Ready ==
  /\ allowedOrigins[1] = <<OriginB>>
  /\ allowedOrigins[2] = <<OriginA>>
  /\ messageHandlers[2]["ping"] # NoHandler
\* the handler returns a value, or a promise that is fulfilled with a value
Returning ==
  {Behaviour("return", v) : v \in ReturnValues}
    \cup {Behaviour("resolve", v) : v \in ReturnValues}

\* the handler throws, or returns a promise that is rejected
Failing ==
  {Behaviour("throw", e) : e \in Failures} \cup {Behaviour("reject", e) : e \in Failures}

PairSteps(behaviours) ==
  \/ allowedOrigins[1] = <<>> /\ AllowOrigins(1, <<OriginB>>)
  \/ allowedOrigins[2] = <<>> /\ AllowOrigins(2, <<OriginA>>)
  \/ \E handler \in HandlerIds :
       /\ messageHandlers[2]["ping"] = NoHandler
       /\ RegisterHandler(2, "ping", handler)
  \/ \E r \in RandomSuffixes :
       Ready /\ PostMessage(1, Request("ping"), OriginB, Options(TRUE, NoTimeoutMs), r)
  \/ \E b \in windows, ev \in net : Deliver(b, ev, behaviours)
  \/ \E j \in jobs : RunJob(j)
  \/ \E tm \in timers : TimeoutCallback(1, tm)
  \/ net = {} /\ jobs = {} /\ Tick(DefaultMessageTimeout)

PairNext == PairSteps(Returning)
PairSpec == PairInit /\ [][PairNext]_vars

\* the same pair, with a handler that fails
FailNext == PairSteps(Failing)
FailSpec == PairInit /\ [][FailNext]_vars

(***************************************************************************)
(* Two instances used side by side: the application sets up both and      *)
(* sends through both, one request at a time, to a window that runs no     *)
(* bridge; the timers of both fire.                                        *)
(***************************************************************************)
TwoNext ==
  \/ \E b \in Bridges : allowedOrigins[b] = <<>> /\ AllowOrigins(b, <<OriginEvil>>)
  \/ \E b \in Bridges, handler \in HandlerIds : RegisterHandler(b, "ping", handler)
  \/ \E b \in Bridges, callback \in FallbackIds : OnMessage(b, callback)
  \/ \E b \in Bridges, requiresResponse \in BOOLEAN, r \in RandomSuffixes :
       /\ pendingResponses[b] = EmptyMap
       /\ PostMessage(b, Request("ping"), OriginEvil,
                      Options(requiresResponse, NoTimeoutMs), r)
  \/ \E b \in Bridges, tm \in timers : TimeoutCallback(b, tm)
  \/ Tick(DefaultMessageTimeout)

TwoSpec == PairInit /\ [][TwoNext]_vars

(***************************************************************************)
(* Handlers that call back into their bridge while a message is being      *)
(* dispatched: the handler of bridge 2 calls postMessage (a request to a   *)
(* third window), registerHandler (for its own type) or allowOrigins, and  *)
(* then returns a value.  Bridge 2 may have a request of its own pending.  *)
(***************************************************************************)
\* envelopes a bridge builds when its handlers send as well
MaxReentry == 3
Reentrant ==
  {Behaviour("send", VPong), Behaviour("register", VPong), Behaviour("allow", VPong)}
\* the handler that replaces the one that is running
NextHandler == "h2"

\* a bridge that keeps the message it dispatches in a field that postMessage
\* overwrites
AnsweredLatest(message, nested) == nested
\* the message the callbacks of lines 770-782 answer: const message of line 730,
\* which a call of postMessage inside the handler cannot change
Answered(message, nested) == message

\* the listener, lines 713-798, for a request whose handler calls back
DeliverReentrant(b, ev, beh, r0, r1, r2) ==
  LET message == ev.data
      type == message.payload.type
      sends == beh.mode = "send"
      k == IF sends THEN 1 ELSE 0
      id == GenerateMessageId(b, r0)
      nested == FullMessage(b, id, Request("ping"), OriginEvil, TRUE)
      answered == Meta(Answered(message, nested))
      first == Respond(b, k + 1, r1, answered.id, beh.val, answered.source, "")
      second == Respond(b, k + 2, r2, answered.id, ErrorResponse(TransportError),
                        answered.source, "error")
      eff == IF ~message.requiresResponse THEN NoEffect
             ELSE IF ~first.throws THEN Effect(1, first.out, "no")
             ELSE Effect(2, second.out, IF second.throws THEN "rejection" ELSE "no")
      out == eff.out \cup (IF sends THEN {Event(OriginOf(b), OriginEvil, nested)} ELSE {})
  IN /\ ev \in net /\ Reaches(ev, b)
     /\ Gate(b, ev.origin) /\ Accepts(b, message) /\ ~IsResponse(message)
     /\ type \in Types /\ messageHandlers[b][type] # NoHandler
     /\ messageCounter[b] + k + eff.count <= MaxReentry
     /\ Cardinality((net \ {ev}) \cup Handed(out)) <= MaxNet
     /\ messageCounter' = [messageCounter EXCEPT ![b] = @ + k + eff.count]
     /\ pendingResponses' =
          IF sends THEN [pendingResponses EXCEPT ![b] = (id :> PendingEntry(id)) @@ @]
          ELSE pendingResponses
     /\ timers' = IF sends THEN timers \cup {Timer(b, id)} ELSE timers
     /\ deferred' = IF sends THEN [deferred EXCEPT ![b] = (id :> NewPromise) @@ @]
                    ELSE deferred
     /\ messageHandlers' =
          IF beh.mode = "register"
            THEN [messageHandlers EXCEPT ![b][type] = NextHandler]
            ELSE messageHandlers
     /\ allowedOrigins' =
          IF beh.mode = "allow"
            THEN [allowedOrigins EXCEPT ![b] = @ \o <<OriginEvil>>]
            ELSE allowedOrigins
     /\ net' = (net \ {ev}) \cup Handed(out)
     /\ last' = [Received(b, ev.origin, message)
                   EXCEPT !.invoked = "handler", !.threw = eff.threw,
                          !.sent = Cardinality(out), !.val = beh.val,
                          !.status = beh.mode]
     /\ UNCHANGED <<now, ticks, messageTimeout, globalMessageCallback, jobs, windows,
                 emitter>>

ReentryNext ==
  \/ PairSteps(Returning)
  \/ \E r \in RandomSuffixes :
       /\ pendingResponses[2] = EmptyMap
       /\ PostMessage(2, Request("ping"), OriginEvil, Options(TRUE, NoTimeoutMs), r)
  \/ \E ev \in net, beh \in Reentrant, r0, r1, r2 \in RandomSuffixes :
       DeliverReentrant(2, ev, beh, r0, r1, r2)
  \/ \E tm \in timers : TimeoutCallback(2, tm)

ReentrySpec == PairInit /\ [][ReentryNext]_vars

(***************************************************************************)
(* The listener statement by statement, for a response whose entry is in   *)
(* the table: line 740 clears the timer, lines 742-750 call the stored     *)
(* continuation, line 752 deletes the entry.  The step record holds the    *)
(* position of the listener (op "settling": "cleared" after line 740,      *)
(* "fired" after line 750) and the response it is working on; nothing else *)
(* runs until the listener has returned.                                   *)
(***************************************************************************)
\* lines 715-740
ResponseBegin(b, origin, message) ==
  /\ Gate(b, origin) /\ Accepts(b, message) /\ IsResponse(message)
  /\ PendingLookup(b, message.responseToId) = "own"
  /\ timers' = ClearTimeout(b, pendingResponses[b][message.responseToId].timeoutId)
  /\ last' = [Received(b, origin, message) EXCEPT !.op = "settling", !.cls = "cleared"]
  /\ UNCHANGED <<now, ticks, allowedOrigins, messageTimeout, messageHandlers,
                 globalMessageCallback, pendingResponses, messageCounter, deferred,
                 net, jobs, windows, emitter>>

\* lines 742-750
ResponseFire(b) ==
  /\ last.op = "settling" /\ last.cls = "cleared" /\ last.b = b
  /\ deferred' = [deferred EXCEPT ![b][pendingResponses[b][last.id].promise] =
        IF last.status = "error"
          THEN CallReject(@, "REMOTE_ERROR",
                          ErrorValue(RemoteMessage(last.val), last.val.details))
          ELSE CallResolve(@, last.val)]
  /\ last' = [last EXCEPT !.cls = "fired"]
  /\ UNCHANGED <<now, ticks, allowedOrigins, messageTimeout, messageHandlers,
                 globalMessageCallback, pendingResponses, messageCounter, timers,
                 net, jobs, windows, emitter>>

\* lines 752-754
ResponseDelete(b) ==
  /\ last.op = "settling" /\ last.cls = "fired" /\ last.b = b
  /\ deferred' = [deferred EXCEPT ![b][pendingResponses[b][last.id].promise].removals =
        @ + RemovalsOf(pendingResponses[b], last.id)]
  /\ pendingResponses' = [pendingResponses EXCEPT ![b] = Without(@, last.id)]
  /\ last' = [last EXCEPT !.op = "recv", !.cls = "response"]
  /\ UNCHANGED <<now, ticks, allowedOrigins, messageTimeout, messageHandlers,
                 globalMessageCallback, messageCounter, timers, net, jobs, windows,
                 emitter>>

StepwiseNext ==
  \/ last.op # "settling" /\ allowedOrigins[1] = <<>> /\ AllowOrigins(1, <<OriginB>>)
  \/ \E r \in RandomSuffixes :
       /\ last.op # "settling"
       /\ PostMessage(1, Request("ping"), OriginB, Options(TRUE, NoTimeoutMs), r)
  \/ \E id \in DOMAIN deferred[1], payload \in {VPong, VData},
        status \in {"success", "error"} :
       /\ last.op # "settling"
       /\ ResponseBegin(1, OriginB, [ReplyTo(id, payload) EXCEPT !.status = status])
  \/ \E tm \in timers : last.op # "settling" /\ TimeoutCallback(1, tm)
  \/ last.op # "settling" /\ Tick(DefaultMessageTimeout)
  \/ ResponseFire(1)
  \/ ResponseDelete(1)

StepwiseSpec == Init /\ [][StepwiseNext]_vars

(***************************************************************************)
(* One bridge whose handler fails: it throws or returns a promise that is  *)
(* rejected, for requests that require a response and for those that do    *)
(* not.                                                                    *)
(***************************************************************************)
QuietNext ==
  \/ allowedOrigins[1] = <<>> /\ AllowOrigins(1, <<OriginB>>)
  \/ \E handler \in HandlerIds : RegisterHandler(1, "ping", handler)
  \/ \E origin \in Senders, message \in ForgedRequests(1) :
       Inject(1, origin, message, Failing)
  \/ \E j \in jobs : RunJob(j)
  \/ Tick(DefaultMessageTimeout)

QuietSpec == Init /\ [][QuietNext]_vars

(***************************************************************************)
(* The validation alone: _validateMessage is called with raw messages of   *)
(* every shape, at any time.                                               *)
(***************************************************************************)
\* one call of _validateMessage(message), lines 826-844: what it was given (the
\* id, the payload, the source, the timestamp in ms, whether it was an object)
\* and what it returned
ValidateCall(b, message) ==
  /\ last' = [Step("validate", b, IF ValidateMessage(message, now) THEN "true" ELSE "false",
                   "none", "no", 0, message.id, FALSE)
                EXCEPT !.val = message.payload, !.origin = message.source,
                       !.ms = message.timestamp,
                       !.status = IF message.isObj THEN "object" ELSE "other"]
  /\ UNCHANGED <<now, ticks, allowedOrigins, messageTimeout, messageHandlers,
                 globalMessageCallback, pendingResponses, messageCounter, timers,
                 deferred, net, jobs, windows, emitter>>

\* raw messages: every field present or missing, timestamps at the edges of the
\* age window, and a timestamp that is no number
RawMessages ==
  {NonObject} \cup
  {Envelope(id, ts, src, Star, payload, FALSE, NoId, FALSE, "") :
     id \in {NoId, ForeignId},
     ts \in {0, TextTimestamp} \cup {now - age : age \in Ages},
     src \in {<<>>, OriginEvil},
     payload \in {Request("ping"), VText, VUndefined, VZero}}

ValidateNext ==
  \/ \E message \in RawMessages : ValidateCall(1, message)
  \/ Tick(MaxMessageAge)

ValidateSpec == Init /\ [][ValidateNext]_vars

(***************************************************************************)
(* Properties of the correlation table and of the listener's gates.        *)
(***************************************************************************)
(***************************************************************************)
(* The EventEmitter: listeners are registered with on and once, each once, *)
(* and the event is emitted, by the application and by listeners while     *)
(* they run.                                                               *)
(***************************************************************************)
\* emit calls nested in one another
MaxDepth == 2
\* invocations of one listener
MaxCalls == 3

\* what on, once and emit leave alone
BridgeUntouched ==
  UNCHANGED <<now, ticks, allowedOrigins, messageTimeout, messageHandlers,
              globalMessageCallback, pendingResponses, messageCounter, timers,
              deferred, net, jobs, windows, last>>

\* lines 327-360: the item goes to the end of the list (all priorities are 0)
EmitterOn(listener, once) ==
  /\ emitter.added[listener] = "no"
  /\ emitter' = [emitter EXCEPT
                   !.events = Append(@, [listener |-> listener, once |-> once]),
                   !.added[listener] = IF once THEN "once" ELSE "on"]
  /\ BridgeUntouched
\* lines 369-371
EmitterOnce(listener) == EmitterOn(listener, TRUE)

\* lines 395-396: off(event, listener) drops every item of that listener
Off(events, listener) == SelectSeq(events, LAMBDA item : item.listener # listener)

\* an emit call in progress: the copy of line 415 and the item being called
Frame(listeners, i) == [listeners |-> listeners, i |-> i]
\* line 420: the listener of the i-th item of the copy is called
Invoke(e, listeners, i) ==
  [e EXCEPT !.stack = Append(@, Frame(listeners, i)),
            !.calls[listeners[i].listener] = @ + 1]

\* lines 409-420: emit is called, by the application or by the listener that is
\* running, copies the list and calls the first listener
EmitBegin ==
  /\ Len(emitter.stack) < MaxDepth
  /\ emitter.events # <<>>
  /\ emitter.calls[emitter.events[1].listener] < MaxCalls
  /\ emitter' = Invoke(emitter, emitter.events, 1)
  /\ BridgeUntouched

\* lines 421-428: the listener returns (or throws), a once item is removed with
\* off, and the loop calls the next listener of the copy or emit returns
ListenerReturn ==
  /\ emitter.stack # <<>>
  /\ LET top == emitter.stack[Len(emitter.stack)]
         item == top.listeners[top.i]
         rest == SubSeq(emitter.stack, 1, Len(emitter.stack) - 1)
         removed == [emitter EXCEPT
                       !.events = IF item.once THEN Off(@, item.listener) ELSE @,
                       !.stack = rest]
     IN IF top.i < Len(top.listeners)
          THEN /\ emitter.calls[top.listeners[top.i + 1].listener] < MaxCalls
               /\ emitter' = Invoke(removed, top.listeners, top.i + 1)
          ELSE emitter' = removed
  /\ BridgeUntouched

EmitNext ==
  \/ \E listener \in Listeners : EmitterOn(listener, FALSE)
  \/ \E listener \in Listeners : EmitterOnce(listener)
  \/ EmitBegin
  \/ ListenerReturn

EmitSpec == Init /\ [][EmitNext]_vars

(***************************************************************************)
(* Bridge 2 at OriginB lists OriginEvil; bridge 1 at OriginA lists OriginB.*)
(* The application of 2 registers handlers and fallbacks one after the     *)
(* other; the window at OriginEvil posts requests to 2 that name OriginA   *)
(* or itself as their source, and what 2 answers to OriginA arrives at 1.  *)
(***************************************************************************)
NotAnArray == [isArray |-> FALSE, items |-> <<>>]
Array(items) == [isArray |-> TRUE, items |-> items]
\* handlers and fallbacks in the order the application registers them
LaterHandler(b) == IF messageHandlers[b]["ping"] = NoHandler THEN "h1" ELSE "h2"
LaterFallback(b) == IF globalMessageCallback[b] = NoFallback THEN "f1" ELSE "f2"
OpenRequests ==
  {Envelope(ForeignId, now, src, OriginB, Request(type), rr, NoId, FALSE, "") :
     src \in {OriginA, OriginEvil}, type \in {"ping", ""}, rr \in BOOLEAN}
OpenAnswers == Immediate({VPong}) \cup Promised({VPong})

OpenNext ==
  \/ allowedOrigins[1] = <<>> /\ AllowOriginsCall(1, Array(<<OriginB>>))
  \/ allowedOrigins[2] = <<>> /\ AllowOriginsCall(2, Array(<<OriginEvil>>))
  \/ /\ messageHandlers[2]["ping"] # "h2"
     /\ RegisterHandler(2, "ping", LaterHandler(2))
  \/ /\ globalMessageCallback[2] # "f2"
     /\ OnMessage(2, LaterFallback(2))
  \/ \E b \in windows, ev \in net : Deliver(b, ev, OpenAnswers)
  \/ \E message \in OpenRequests : Inject(2, OriginEvil, message, OpenAnswers)
  \/ \E j \in jobs : RunJob(j)

OpenSpec == PairInit /\ [][OpenNext]_vars

(***************************************************************************)
(* The calls an application makes on a bridge, with arguments the bridge   *)
(* refuses among them: bridge 2 lists OriginEvil only, and what it sends   *)
(* to every window arrives at bridge 1.                                    *)
(***************************************************************************)
CallsNext ==
  \/ \E b \in Bridges : \E origins \in {NotAnArray, Array(<<OriginEvil>>)} :
       /\ Len(allowedOrigins[b]) < MaxAllow
       /\ AllowOriginsCall(b, origins)
  \/ \E b \in Bridges, handler \in {"h1", NotAFunction} :
       RegisterHandler(b, "ping", handler)
  \/ \E b \in Bridges, callback \in {"f1", NotAFunction} : OnMessage(b, callback)
  \/ \E messageId \in {ForeignId, NoId}, targetOrigin \in {<<>>, OriginA},
        r \in RandomSuffixes :
       RespondToMessage(2, messageId, VPong, targetOrigin, r)
  \/ \E b \in windows, ev \in net : Deliver(b, ev, OpenAnswers)

CallsSpec == PairInit /\ [][CallsNext]_vars

(***************************************************************************)
(* A bridge that lists two origins sends requests to one of them, and      *)
(* responses arrive from both, under their own name or the other's.        *)
(***************************************************************************)
AnswerResponses ==
  {Envelope(ForeignId, now, src, <<>>, payload, FALSE, key, TRUE, status) :
     src \in {OriginB, OriginEvil}, payload \in {VPong, VData},
     key \in DOMAIN deferred[1], status \in {"success", "error"}}

AnswerNext ==
  \/ allowedOrigins[1] = <<>> /\ AllowOriginsCall(1, Array(<<OriginB, OriginEvil>>))
  \/ \E r \in RandomSuffixes :
       PostMessage(1, Request("ping"), OriginB, Options(TRUE, NoTimeoutMs), r)
  \/ \E origin \in {OriginB, OriginEvil}, message \in AnswerResponses :
       Inject(1, origin, message, OpenAnswers)
  \/ \E tm \in timers : TimeoutCallback(1, tm)
  \/ Tick(DefaultMessageTimeout)

AnswerSpec == Init /\ [][AnswerNext]_vars

\* what a bridge holds, apart from the transport and the clock
bridgeState == <<allowedOrigins, messageTimeout, messageHandlers, globalMessageCallback,
                 pendingResponses, messageCounter, timers, deferred, jobs>>
\* the last step was the listener of bridge 1 receiving a message of class cls
Got(step, cls) == step.op = "recv" /\ step.cls = cls
\* the step left the bridge as it was: no callback, no envelope, nothing thrown
Dropped(step) == step.invoked = "none" /\ step.sent = 0 /\ step.threw = "no"

\* C1: the continuation of a promise returned by postMessage with
\* requiresResponse is invoked at most once, by a success response, an error
\* response or the timeout, whatever their interleaving; its entry is removed at
\* most once, and as long as the entry is in the table none of them has happened.
C1_SettledAtMostOnce ==
  \A b \in windows : \A id \in DOMAIN deferred[b] :
    LET p == deferred[b][id]
    IN /\ p.calls <= 1
       /\ p.removals <= 1
       /\ id \in DOMAIN pendingResponses[b] => p.calls = 0 /\ p.removals = 0
\* a response arrives for a request that was settled and removed before
C1_Witness ==
  /\ Got(last, "response") /\ ~last.live
  /\ last.id \in DOMAIN deferred[1]
  /\ deferred[1][last.id].calls = 1 /\ deferred[1][last.id].removals = 1

\* the ids postMessage can give to the requests of bridge 1
IdSpace ==
  {MessageId(StartTime + k * DefaultMessageTimeout, n, r) :
     k \in 0..MaxTicks, n \in 1..MaxCounter, r \in RandomSuffixes}
Pending(id) == id \in DOMAIN pendingResponses[1]
\* the promise of id is settled in one of the given ways ("" is fulfilment)
SettledAs(id, kinds) ==
  /\ id \in DOMAIN deferred[1]
  /\ deferred[1][id].state # "pending"
  /\ deferred[1][id].kind \in kinds

C3_TimeoutRejects ==
  /\ [](\A tm \in timers : /\ tm.id \in DOMAIN pendingResponses[tm.b]
                           /\ deferred[tm.b][tm.id].calls = 0)
  /\ [][last'.op = "timer" =>
          /\ last'.live
          /\ last'.id \notin DOMAIN pendingResponses'[last'.b]
          /\ deferred[last'.b][last'.id].state = "pending" =>
               /\ deferred'[last'.b][last'.id].state = "rejected"
               /\ deferred'[last'.b][last'.id].kind = "RESPONSE_TIMEOUT"]_vars
\* the timer of an unanswered request has fired
C3_Witness ==
  /\ last.op = "timer" /\ last.live
  /\ last.id \notin DOMAIN pendingResponses[last.b]
  /\ deferred[last.b][last.id].kind = "RESPONSE_TIMEOUT"

\* C4: a response from an allowed origin that passes validation and whose
\* responseToId has no entry in the table, whatever string that id is, changes
\* nothing in the bridge, invokes no callback, sends nothing and throws nothing.
C4_NoEntryIsNoOp ==
  [][Got(last', "response") /\ ~last'.live => UNCHANGED bridgeState /\ Dropped(last')]_vars

\* C5: when a success response with payload P is accepted for an id whose entry
\* is in the table and whose promise is pending (the transport took the request
\* and its timer has not fired), the promise becomes fulfilled with exactly P.
C5_FulfilsWithPayload ==
  [][/\ Got(last', "response") /\ last'.live /\ last'.status # "error"
     /\ deferred[last'.b][last'.id].state = "pending"
     => /\ deferred'[last'.b][last'.id].state = "fulfilled"
        /\ deferred'[last'.b][last'.id].value = last'.val]_vars
\* a pending request was answered with the payload VData and holds it
C5_Witness ==
  /\ Got(last, "response") /\ last.live /\ last.status = "success"
  /\ last.val = VData
  /\ deferred[last.b][last.id].state = "fulfilled"
  /\ deferred[last.b][last.id].value = VData

\* C6: the response that settles one request gives its payload to the promise of
\* its own responseToId and leaves every other request of the bridge as it was:
\* its promise, its entry in the table and its timer.
C6_IndependentSettlement ==
  [][Got(last', "response") /\ last'.live =>
       /\ \A other \in DOMAIN deferred[last'.b] \ {last'.id} :
            /\ deferred'[last'.b][other] = deferred[last'.b][other]
            /\ other \in DOMAIN pendingResponses[last'.b]
                 <=> other \in DOMAIN pendingResponses'[last'.b]
            /\ {t \in timers : t.b = last'.b /\ t.id = other}
                 = {t \in timers' : t.b = last'.b /\ t.id = other}
       /\ \A b \in windows \ {last'.b} :
            deferred'[b] = deferred[b] /\ pendingResponses'[b] = pendingResponses[b]
       /\ deferred[last'.b][last'.id].state = "pending" /\ last'.status # "error"
            => deferred'[last'.b][last'.id].value = last'.val]_vars
\* two requests were pending together; the later one was answered first, the
\* earlier one last, and each holds the payload of its own response
C6_Witness ==
  /\ Got(last, "response") /\ last.live
  /\ \E a, c \in DOMAIN deferred[1] :
       /\ a.n < c.n /\ last.id = a
       /\ deferred[1][a].state = "fulfilled" /\ deferred[1][a].value = VPong
       /\ deferred[1][c].state = "fulfilled" /\ deferred[1][c].value = VData

\* C7: a message whose origin the allowlist does not allow (every origin, for an
\* empty allowlist) changes nothing in the bridge, invokes no handler and no
\* fallback, sends no envelope and settles no request, even when it is a
\* well-formed response that names a pending request.
C7_RejectedOriginDropped ==
  [][Got(last', "originRejected") =>
       UNCHANGED bridgeState /\ net' \subseteq net /\ Dropped(last')]_vars
\* a well-formed response for a pending request came from a rejected origin
C7_Witness ==
  /\ Got(last, "originRejected") /\ last.live /\ last.val = VPong
  /\ allowedOrigins[1] # <<>>
  /\ last.id \in DOMAIN pendingResponses[1]
  /\ deferred[1][last.id].state = "pending"

\* C8: _isOriginAllowed returns false for every origin when the allowlist is
\* empty, and for every origin that is not an entry of the allowlist when no
\* entry holds a "*".
C8_FailsClosed ==
  last.op = "isAllowed" =>
    LET list == allowedOrigins[last.b]
        entries == {list[i] : i \in 1..Len(list)}
    IN /\ entries = {} => last.cls = "false"
       /\ (\A e \in entries : \A k \in 1..Len(e) : e[k] # "*") /\ last.origin \notin entries
            => last.cls = "false"
\* the policy was asked about an origin outside a list of two plain entries
C8_Witness ==
  /\ last.op = "isAllowed" /\ last.cls = "false"
  /\ allowedOrigins[1] = <<OriginA, OriginB>>
  /\ last.origin = OriginEvil

\* C9: a message from an allowed origin that is not an object, lacks an id, a
\* timestamp, a source or a payload, or is older than the window or from the
\* future, changes nothing in the bridge, invokes no handler and no fallback,
\* sends no envelope, settles no request and throws nothing.
C9_InvalidDropped ==
  [][Got(last', "invalid") =>
       UNCHANGED bridgeState /\ net' \subseteq net /\ Dropped(last')]_vars
\* a response without payload for a pending request came from an allowed origin
C9_Witness ==
  /\ Got(last, "invalid") /\ last.live /\ last.val = VZero
  /\ last.id \in DOMAIN pendingResponses[1]
  /\ deferred[1][last.id].state = "pending"

\* C10: between two bridges that allow each other, the value V a handler returns,
\* at once or through a promise, for a request that requires a response goes to
\* the requester as the payload of one response, and the response fulfils the
\* promise of the request with V when it arrives; no request is rejected.  V is
\* any value, undefined, null, false, 0 and "" included.
C10_EndToEnd ==
  /\ [](\A id \in DOMAIN deferred[1] : deferred[1][id].state # "rejected")
  /\ [][/\ last'.b = 2 /\ last'.sent = 1 =>
            \E ev \in net' \ net :
              /\ ev.target = OriginA
              /\ ev.data.responseToId = last'.id
              /\ ev.data.payload = last'.val
         /\ last'.op = "recv" /\ last'.b = 1 /\ last'.live =>
              /\ deferred'[1][last'.id].state = "fulfilled"
              /\ deferred'[1][last'.id].value = last'.val]_vars

\* C11: when the handler of a request that requires a response throws, or the
\* promise it returned is rejected, the bridge hands the transport one response
\* with status error, addressed to the source of the request, whose payload is
\* the message and the details of the failure; the requester that accepts it
\* rejects the promise of the request with REMOTE_ERROR and that message.
C11_FailureBecomesRemoteError ==
  [][/\ /\ last'.b = 2
        /\ \/ last'.op = "job"
           \/ last'.op = "recv" /\ last'.invoked = "handler" /\ jobs' = jobs
        => \E ev \in net' \ net :
             /\ ev.target = OriginA
             /\ ev.data.isResponse /\ ev.data.responseToId = last'.id
             /\ ev.data.status = "error"
             /\ ev.data.payload = ErrorPayload(last'.val.message, last'.val.details)
     /\ /\ last'.op = "recv" /\ last'.b = 1 /\ last'.live /\ last'.status = "error"
        /\ deferred[1][last'.id].state = "pending"
        => /\ deferred'[1][last'.id].state = "rejected"
           /\ deferred'[1][last'.id].kind = "REMOTE_ERROR"
           /\ deferred'[1][last'.id].value.message = last'.val.message]_vars

\* C12: a call of postMessage whose payload is not an object, whose target is
\* empty or whose payload serializes to more than maxMessageSize throws
\* INVALID_MESSAGE, INVALID_TARGET or MESSAGE_TOO_LARGE to its caller, hands
\* nothing to the transport and leaves the table, the timers, the promises and
\* the message counter as they were.
C12_SendValidationFails ==
  [][last'.op = "send" =>
       LET code == IF last'.val.tag # "object" THEN "INVALID_MESSAGE"
                   ELSE IF last'.origin = <<>> THEN "INVALID_TARGET"
                   ELSE IF JsonLength(last'.val) > DefaultMaxMessageSize
                     THEN "MESSAGE_TOO_LARGE"
                   ELSE ""
       IN code # "" =>
            /\ last'.cls = code /\ last'.threw = "exception" /\ last'.sent = 0
            /\ net' = net
            /\ UNCHANGED bridgeState]_vars
\* with a request pending, a payload over the limit was refused
C12_Witness ==
  /\ last.op = "send" /\ last.cls = "MESSAGE_TOO_LARGE" /\ last.val = VHuge
  /\ messageCounter[1] = 1 /\ timers # {} /\ pendingResponses[1] # EmptyMap

\* C13: postMessage accepts a payload whose serialization has exactly
\* maxMessageSize bytes and refuses with MESSAGE_TOO_LARGE one of
\* maxMessageSize + 1 bytes, the size being counted in bytes.
C13_SizeBoundaryInBytes ==
  [][last'.op = "send" /\ last'.val.tag = "object" /\ last'.origin # <<>> =>
       /\ Utf8Length(last'.val) <= DefaultMaxMessageSize
            => last'.cls \in {"awaiting", "sent", "transportThrew"}
       /\ Utf8Length(last'.val) > DefaultMaxMessageSize
            => last'.cls = "MESSAGE_TOO_LARGE"]_vars

\* C14: postMessage stores the entry and arms the timer of a request before it
\* calls the transport: an envelope in the transport has its entry in the
\* table, and a reply that the transport call itself hands to the listener
\* finds the entry, fulfils the promise with its payload, clears the timer and
\* removes the entry.
C14_EntryBeforeTransport ==
  /\ [](last.op = "sendSync" =>
          /\ last.live
          /\ last.id \notin DOMAIN pendingResponses[last.b]
          /\ \A tm \in timers : tm.id # last.id
          /\ deferred[last.b][last.id].state = "fulfilled"
          /\ deferred[last.b][last.id].value = last.val
          /\ deferred[last.b][last.id].calls = 1)
  /\ [][last'.op = "send" =>
          \A ev \in net' \ net :
            ev.data.requiresResponse =>
              /\ ev.data.id \in DOMAIN pendingResponses'[last'.b]
              /\ \E tm \in timers' : tm.b = last'.b /\ tm.id = ev.data.id]_vars
\* the reply came during the transport call and settled the request
C14_Witness ==
  /\ last.op = "sendSync" /\ last.val = VData
  /\ deferred[1][last.id].state = "fulfilled"
  /\ deferred[1][last.id].value = VData
  /\ pendingResponses[1] = EmptyMap

\* C15: a call of postMessage without requiresResponse hands one envelope to
\* the transport, returns a promise that is already fulfilled and names the id
\* of that envelope, stores no entry and arms no timer; a response that names
\* the id of a message without entry changes nothing.
C15_OneWaySend ==
  [][/\ last'.op = "send" =>
          \A ev \in net' \ net :
            ~ev.data.requiresResponse =>
              /\ net' \ net = {ev} /\ last'.sent = 1
              /\ ev.data.id = last'.id
              /\ last'.status = "fulfilled"
              /\ pendingResponses' = pendingResponses
              /\ timers' = timers
              /\ deferred' = deferred
     /\ Got(last', "response") /\ ~last'.live /\ last'.id.pfx = "msg" =>
          UNCHANGED bridgeState /\ Dropped(last')]_vars
\* a one-way message is in the transport while an earlier request is pending
C15_Witness ==
  /\ last.op = "send" /\ last.cls = "sent" /\ last.status = "fulfilled"
  /\ \E ev \in net : ev.data.id = last.id /\ ~ev.data.requiresResponse
  /\ last.id \notin DOMAIN pendingResponses[1]
  /\ pendingResponses[1] # EmptyMap

\* C16: once the bridge is torn down its table is empty, none of its timers is
\* armed and none of its promises is pending.
C16_TeardownSettlesAll ==
  last.op = "teardown" =>
    /\ pendingResponses[last.b] = EmptyMap
    /\ \A tm \in timers : tm.b # last.b
    /\ \A id \in DOMAIN deferred[last.b] : deferred[last.b][id].state # "pending"

\* C17: the timer of a request sent with timeoutMs = T is due T after the send.
C17_TimeoutFromOptions ==
  [][last'.op = "send" /\ last'.ms # NoTimeoutMs =>
       \A tm \in timers' \ timers : tm.due = now + last'.ms]_vars

\* C18: an envelope built by one bridge never carries the id of an envelope
\* built by another, and the counter in the ids of one bridge grows by one with
\* every envelope that bridge builds.
C18_UniqueIds ==
  /\ [](\A ev \in net : \A b \in windows :
          ev.origin # OriginOf(b) => ev.data.id \notin DOMAIN deferred[b])
  /\ [][\A b \in windows :
          /\ messageCounter'[b] >= messageCounter[b]
          /\ \A ev \in net' \ net :
               ev.origin = OriginOf(b) =>
                 /\ ev.data.id.n > messageCounter[b]
                 /\ ev.data.id.n <= messageCounter'[b]]_vars

\* C19: a message from an allowed origin that passes validation and is marked
\* isResponse invokes no handler and no fallback and makes the bridge send
\* nothing.
C19_ResponsesNotDispatched ==
  [][last'.op = "recv" /\ last'.cls \in {"response", "responseNoId"} =>
       last'.invoked = "none" /\ last'.sent = 0]_vars

\* C20: the dispatch of one request hands at most one response envelope to the
\* transport, whatever the handler or the fallback does.
C20_AtMostOneResponse ==
  [][last'.op \in {"recv", "job"} => last'.sent <= 1]_vars

\* C21: _validateMessage accepts a message exactly when it is an object with an
\* id, a timestamp, a source and a payload whose age, now - timestamp, is in
\* the closed interval from 0 to 60000 ms: ages 0 and 60000 are accepted, ages
\* -1 and 60001 are not.
C21_ValidIffInWindow ==
  last.op = "validate" =>
    (last.cls = "true" <=>
       /\ last.status = "object"
       /\ last.id # NoId /\ last.ms # 0 /\ last.origin # <<>> /\ last.val \notin Falsy
       /\ IsNumber(last.ms)
       /\ now - last.ms >= 0 /\ now - last.ms <= MaxMessageAge)

\* C22: the envelope postMessage builds for a payload and a target it accepts
\* passes _validateMessage of a receiving bridge at the moment of the send, goes
\* to the target it was given, and carries the payload it was given.
C22_RoundTrip ==
  [][/\ last'.op = "send"
     /\ SendError(last'.val, last'.origin) = ""
     /\ last'.threw = "no" /\ last'.status # "rejected"
     => /\ net' \ net # {}
        /\ \A ev \in net' \ net :
             /\ ValidateMessage(ev.data, now')
             /\ ev.data.payload = last'.val
             /\ ev.data.id = last'.id
             /\ ev.target = last'.origin]_vars
\* a payload at the size limit is in the transport and would be accepted
C22_Witness ==
  /\ last.op = "send" /\ last.val = VFull /\ last.cls = "awaiting"
  /\ \E ev \in net :
       /\ ev.data.id = last.id /\ ev.data.payload = VFull
       /\ ValidateMessage(ev.data, now)

\* the timers armed by bridge b
TimersOf(set, b) == {tm \in set : tm.b = b}

\* C23: allowOrigins, registerHandler, onMessage, postMessage and the timeout
\* callback of one instance leave the allowlist, the handlers, the fallback, the
\* message counter, the table, the promises and the timers of every other
\* instance as they were.
C23_InstancesIsolated ==
  [][last'.op \in {"allowOrigins", "registerHandler", "onMessage", "send", "timer"} =>
       \A c \in Bridges \ {last'.b} :
         /\ allowedOrigins'[c] = allowedOrigins[c]
         /\ messageHandlers'[c] = messageHandlers[c]
         /\ globalMessageCallback'[c] = globalMessageCallback[c]
         /\ messageCounter'[c] = messageCounter[c]
         /\ pendingResponses'[c] = pendingResponses[c]
         /\ deferred'[c] = deferred[c]
         /\ TimersOf(timers', c) = TimersOf(timers, c)]_vars
\* the timer of one instance fired while the other, set up otherwise, had a
\* request pending
C23_Witness ==
  /\ last.op = "timer" /\ last.b = 1
  /\ pendingResponses[1] = EmptyMap /\ allowedOrigins[1] = <<>>
  /\ messageHandlers[1]["ping"] = NoHandler /\ globalMessageCallback[1] = NoFallback
  /\ pendingResponses[2] # EmptyMap /\ allowedOrigins[2] # <<>>
  /\ messageHandlers[2]["ping"] # NoHandler /\ globalMessageCallback[2] # NoFallback
  /\ TimersOf(timers, 2) # {}

\* a handler was registered for the type through registerHandler
Registered(b, type) ==
  type \in DOMAIN messageHandlers[b] /\ messageHandlers[b][type] # NoHandler

\* C24: an accepted request of type T is given to the handler registered for T
\* and not to the fallback; without a handler registered for T and without a
\* fallback it is dropped: nothing is invoked, nothing is sent even when it
\* requires a response, nothing is thrown and the bridge is as it was.
C24_DispatchPolicy ==
  [][Got(last', "request") =>
       /\ Registered(last'.b, last'.type) => last'.invoked = "handler"
       /\ ~Registered(last'.b, last'.type) /\ globalMessageCallback[last'.b] = NoFallback
            => Dropped(last') /\ UNCHANGED bridgeState]_vars

\* C25: with a fallback set, an accepted request whose type has no handler
\* registered through registerHandler, whatever the type and also without one,
\* is given to the fallback and to nothing else.
C25_FallbackGetsUnhandled ==
  [][/\ Got(last', "request")
     /\ ~Registered(last'.b, last'.type)
     /\ globalMessageCallback[last'.b] # NoFallback
     => last'.invoked = "fallback"]_vars

\* C26: when the handler of a request that requires no response throws, or the
\* promise it returned is rejected, the bridge sends no response and nothing
\* leaves the listener: no uncaught exception and no unhandled rejection.
C26_QuietFailure ==
  [][Got(last', "request") /\ last'.invoked = "handler" /\ ~last'.rr =>
       /\ last'.sent = 0 /\ net' = net /\ jobs' = jobs
       /\ last'.threw = "no"]_vars

\* C27: every envelope the listener or a then/catch callback hands to the
\* transport for a request is a response to that request and to no other: its
\* responseToId is the id of the request, isResponse is true, its status is
\* success or error, its own id differs from the id of the request, and its
\* target is the source of the request.
C27_ResponseEnvelope ==
  [][Got(last', "request") \/ last'.op = "job" =>
       \A ev \in net' \ net :
         /\ ev.data.isResponse
         /\ ev.data.responseToId = last'.id
         /\ ev.data.status \in {"success", "error"}
         /\ ev.data.id # last'.id
         /\ ev.target = last'.origin]_vars

C29_RemoveBeforeFulfil ==
  /\ \A id \in DOMAIN pendingResponses[1] : deferred[1][id].calls = 0
  /\ Got(last, "response") /\ last.live =>
       /\ last.id \notin DOMAIN pendingResponses[1]
       /\ \A tm \in timers : tm.id # last.id
       /\ deferred[1][last.id].calls = 1

\* origin is the entry with each "*" replaced by some string, possibly empty,
\* every other character of the entry standing for itself
RECURSIVE GlobMatch(_, _)
GlobMatch(entry, origin) ==
  IF entry = <<>> THEN origin = <<>>
  ELSE IF Head(entry) = "*"
    THEN \/ GlobMatch(Tail(entry), origin)
         \/ origin # <<>> /\ GlobMatch(entry, Tail(origin))
  ELSE origin # <<>> /\ Head(origin) = Head(entry) /\ GlobMatch(Tail(entry), Tail(origin))

\* C30: _isOriginAllowed accepts an origin exactly when an entry of the allowlist
\* is "*", is the origin itself, or holds a "*" and equals the origin once each
\* "*" is replaced by some string, possibly empty: the match is anchored at both
\* ends and every character of the entry other than "*" matches only itself.
C30_PatternSemantics ==
  last.op = "isAllowed" =>
    LET list == allowedOrigins[last.b]
    IN last.cls = "true" <=>
         \E i \in 1..Len(list) :
           \/ list[i] = Star
           \/ list[i] = last.origin
           \/ HasWildcard(list[i]) /\ GlobMatch(list[i], last.origin)

\* C31: between callbacks every entry of the table has exactly one armed timer,
\* the one whose handle it holds, and every armed timer is the timer of an entry
\* of the table of its bridge: no timer outlives its entry and no entry is left
\* without its timer.
C31_TimerOwnership ==
  /\ \A b \in windows : \A id \in DOMAIN pendingResponses[b] :
       Cardinality({tm \in timers :
                      tm.b = b /\ tm.id = pendingResponses[b][id].timeoutId}) = 1
  /\ \A tm \in timers :
       /\ tm.id \in DOMAIN pendingResponses[tm.b]
       /\ pendingResponses[tm.b][tm.id].timeoutId = tm.id
\* the timer of one request fired while a later request keeps its entry and
\* its timer
C31_Witness ==
  /\ last.op = "timer" /\ last.live
  /\ last.id \notin DOMAIN pendingResponses[1]
  /\ Cardinality(DOMAIN pendingResponses[1]) = 1
  /\ Cardinality(timers) = 1

\* C32: the promise postMessage returns for a request that requires a response
\* is pending when postMessage returns, whatever the transport did during the
\* call.
C32_PendingOnReturn ==
  [][\/ last'.op = "send" /\ last'.rr /\ SendError(last'.val, last'.origin) = ""
     \/ last'.op = "sendSync"
     => last'.status = "pending"]_vars

\* the envelopes a step handed to the transport for a window that runs a bridge
NewEvents == net' \ net
\* a response envelope for the message id, with the payload val
IsAnswer(ev, id, val, status) ==
  /\ ev.data.isResponse /\ ev.data.responseToId = id
  /\ ev.data.payload = val /\ ev.data.status = status

\* C33: the respond capability the fallback receives is bound to the message
\* being dispatched: called for a message without requiresResponse it sends
\* nothing and changes nothing; called for a message with requiresResponse it
\* sends a success response that names that message's id to that message's
\* source (a source that is the origin of a window).
C33_RespondCapability ==
  [][/\ Got(last', "request") /\ last'.invoked = "fallback"
     /\ last'.status \in {"respond", "respondTwice"}
     => IF ~last'.rr
          THEN last'.sent = 0 /\ UNCHANGED bridgeState /\ net' \subseteq net
          ELSE (\E w \in windows : OriginOf(w) = last'.origin) =>
                 \E ev \in NewEvents :
                   ev.target = last'.origin /\ IsAnswer(ev, last'.id, last'.val, "success")]_vars
\* the fallback of bridge 2 has answered a request that names OriginA
C33_Witness ==
  /\ Got(last, "request") /\ last.invoked = "fallback" /\ last.status = "respond"
  /\ last.rr /\ last.origin = OriginA /\ last.sent = 1
  /\ \E ev \in net : ev.target = OriginA /\ IsAnswer(ev, last.id, VPong, "success")

\* C34: a registration that succeeds puts its handler (its fallback) in the place
\* of the one before, nothing but a registration changes the registry or the
\* fallback, and an accepted message goes to the handler the registry holds for
\* its type, or to the fallback the bridge holds: the latest one registered.
C34_LatestRegistrationWins ==
  [][/\ last'.op = "registerHandler" /\ last'.threw = "no"
          => messageHandlers'[last'.b][last'.type] = last'.by
     /\ last'.op = "onMessage" /\ last'.threw = "no"
          => globalMessageCallback'[last'.b] = last'.by
     /\ messageHandlers' # messageHandlers => last'.op = "registerHandler"
     /\ globalMessageCallback' # globalMessageCallback => last'.op = "onMessage"
     /\ Got(last', "request") /\ last'.invoked = "handler" /\ last'.type \in Types
          => last'.by = messageHandlers[last'.b][last'.type]
     /\ Got(last', "request") /\ last'.invoked = "fallback"
          => last'.by = globalMessageCallback[last'.b]]_vars
\* a request went to the handler registered second
C34_Witness ==
  /\ Got(last, "request") /\ last.invoked = "handler" /\ last.type = "ping"
  /\ last.by = "h2" /\ messageHandlers[last.b]["ping"] = "h2"

\* C35: respondToMessage without a targetOrigin hands its envelope only to
\* windows whose origin the allowlist of the bridge accepts.
C35_RespondWithinAllowlist ==
  [][last'.op = "respond" /\ last'.origin = <<>> =>
       \A ev \in NewEvents : \A w \in windows :
         Reaches(ev, w) => IsOriginAllowed(allowedOrigins[last'.b], OriginOf(w))]_vars

\* C36 as stated: a response the listener sends for a request a handler took is
\* targeted at the origin the transport reported for that request.
C36_TargetIsEventOrigin ==
  [][Got(last', "request") /\ last'.invoked = "handler" =>
       \A ev \in NewEvents : ev.target = last'.from]_vars
\* C36: a response the listener sends for a request a handler took, at once or
\* when the promise of the handler settles, is targeted at the source the
\* request declares, also when the transport reported another origin.
C36_TargetIsDeclaredSource ==
  [][\/ Got(last', "request") /\ last'.invoked = "handler"
     \/ last'.op = "job"
     => \A ev \in NewEvents : ev.data.isResponse /\ ev.target = last'.origin]_vars
\* a request from OriginEvil that names OriginA was answered to OriginA
C36_Witness ==
  /\ Got(last, "request") /\ last.invoked = "handler" /\ last.sent = 1
  /\ last.from = OriginEvil /\ last.origin = OriginA
  /\ \E ev \in net : ev.target = OriginA /\ ev.data.responseToId = last.id

\* C37: an accepted response whose responseToId names a pending request settles
\* it, whichever allowed origin it came from and whatever source it declares:
\* the entry leaves the table and the promise is fulfilled with the payload, or
\* rejected as a remote error.
C37_AnyAllowedOriginSettles ==
  [][/\ Got(last', "response") /\ last'.live
     /\ deferred[last'.b][last'.id].state = "pending"
     => /\ last'.id \notin DOMAIN pendingResponses'[last'.b]
        /\ IF last'.status = "error"
             THEN /\ deferred'[last'.b][last'.id].state = "rejected"
                  /\ deferred'[last'.b][last'.id].kind = "REMOTE_ERROR"
             ELSE /\ deferred'[last'.b][last'.id].state = "fulfilled"
                  /\ deferred'[last'.b][last'.id].value = last'.val]_vars
\* a request sent to OriginB was fulfilled by a response from OriginEvil
C37_Witness ==
  /\ Got(last, "response") /\ last.live /\ last.from = OriginEvil
  /\ last.status = "success" /\ last.val = VData
  /\ deferred[1][last.id].state = "fulfilled"
  /\ deferred[1][last.id].value = VData
  /\ last.id \notin DOMAIN pendingResponses[1]

\* C38: the allowlist only grows: allowOrigins keeps the entries there were in
\* front of the new ones, every origin _isOriginAllowed accepted before a step
\* it accepts after it, and no step shortens the list.
C38_AllowlistMonotone ==
  [][\A b \in Bridges :
       /\ Len(allowedOrigins'[b]) >= Len(allowedOrigins[b])
       /\ SubSeq(allowedOrigins'[b], 1, Len(allowedOrigins[b])) = allowedOrigins[b]
       /\ \A origin \in Origins :
            IsOriginAllowed(allowedOrigins[b], origin)
              => IsOriginAllowed(allowedOrigins'[b], origin)]_vars
\* a second entry was added and the origin of the first is still accepted
C38_Witness ==
  /\ last.op = "allowOrigins"
  /\ allowedOrigins[1] = <<OriginB, OriginEvil>>
  /\ IsOriginAllowed(allowedOrigins[1], OriginB)

\* the step was a mutator called with an argument it refuses
Refused(step) ==
  \/ step.op = "allowOrigins" /\ step.status = "other"
  \/ step.op = "registerHandler" /\ step.by = NotAFunction
  \/ step.op = "onMessage" /\ step.by = NotAFunction
  \/ step.op = "respond" /\ step.id = NoId
\* C39: allowOrigins with a non-array, registerHandler with a non-function,
\* onMessage with a non-function and respondToMessage with an empty message id
\* throw and leave the allowlist, the registry, the fallback, the counter and the
\* table as they were, and hand nothing to the transport.
C39_RefusedCallChangesNothing ==
  [][Refused(last') =>
       /\ last'.threw = "exception" /\ last'.sent = 0
       /\ UNCHANGED bridgeState
       /\ net' = net]_vars
\* onMessage refused a callback and the fallback registered before is in place
C39_Witness ==
  /\ last.op = "onMessage" /\ last.by = NotAFunction /\ last.threw = "exception"
  /\ globalMessageCallback[last.b] = "f1"

\* C40: a listener registered with once is invoked at most once, whatever
\* emits follow and wherever they are issued from, a running listener included.
C40_OnceAtMostOnce ==
  \A listener \in Listeners :
    emitter.added[listener] = "once" => emitter.calls[listener] <= 1

====
